---------------------------- MODULE Spec2Model ----------------------------
(***************************************************************************)
(* A model of andrewpillar/webutil: the per-field error sets (Errors and   *)
(* ValidationErrors), the file validator with its human-readable sizes,    *)
(* the extraction of an uploaded file from a request, the unmarshalling    *)
(* and validation of forms, the helpers BasePath and BaseAddress, the      *)
(* response writers HTML, Text and JSON, the session flash helpers, the    *)
(* Validator with its chain of WrapErrorFuncs, and the earlier File with   *)
(* its own Validate and UnmarshalAndValidate.                              *)
(*                                                                         *)
(* An error set is a Go map[string][]string.  It is modelled as a function *)
(* whose DOMAIN is the set of keys present in the map and whose values are *)
(* the message sequences.  A Go panic is modelled by status = "panic",     *)
(* after which the calling goroutine takes no further step.                *)
(***************************************************************************)
EXTENDS Integers, Sequences, FiniteSets, TLC

VARIABLES
    errs,     \* the receiver error set (*Errors / ValidationErrors)
    other,    \* a second error set, the argument of Merge
    status,   \* "ok", or "panic" once a call has panicked
    call,     \* the last call made: [op, key, err, ret]
    ma,       \* three error sets a, b, c that are merged in both groupings
    mb,
    mc,
    left,     \* a after a.Merge(b); a.Merge(c)
    right,    \* a after b.Merge(c); a.Merge(b)
    mpc,      \* "start", "left" (left is computed), "done" (both are)
    fv,       \* the FileValidator and the File it embeds
    verrs,    \* the ValidationErrors that Validate hands to the validator
    vret,     \* what Validate returned: "none" yet, "nil", "errors", "panic"
    hs,       \* the last humanSize call: [n, out]
    req,      \* the *http.Request a file is unmarshalled from
    file,     \* the File that UnmarshalRequest fills
    uret,     \* what UnmarshalRequest returned: "none" yet, "nil", an error
    hreq,     \* the *http.Request a form is unmarshalled from
    form,     \* the Form (a Post) the request is unmarshalled into
    hret,     \* the unmarshal call made and what it returned
    vadds,    \* a Validator: the Add calls its Validate method makes
    vres,     \* what Validate(v) returned for it
    path,     \* the argument of BasePath
    base,     \* what BasePath returned
    areq,     \* the *http.Request handed to BaseAddress
    addr,     \* what BaseAddress returned
    wcall,    \* the response writer called: [fn, content, data, status]
    w,        \* the http.ResponseWriter it writes to
    wpc,      \* how many calls on w the response writer has made
    sess,     \* the Values of a *sessions.Session: key -> flashes
    flashed,  \* the FlashFormWithErrors call made on sess, if any
    sret,     \* the last read of sess since it was flashed: [op, out, before]
    vld,      \* a *Validator: its fields and its chain of WrapErrorFuncs
    vout,     \* what its Validate method did: [ret, errs, invoked]
    upl,      \* a *File of the Form version: its limits, file and Request
    uplret    \* the last call made with it: [op, ret, errs]

errVars == <<errs, other, status, call>>

assocVars == <<ma, mb, mc, left, right, mpc>>

fvVars == <<fv, verrs, vret, hs>>

upVars == <<req, file, uret>>

unVars == <<hreq, form, hret>>

valVars == <<vadds, vres>>

urlVars == <<path, base, areq, addr>>

respVars == <<wcall, w, wpc>>

sessVars == <<sess, flashed, sret>>

vldVars == <<vld, vout>>

ffVars == <<upl, uplret>>

vars == <<errs, other, status, call, ma, mb, mc, left, right, mpc,
          fv, verrs, vret, hs, req, file, uret, hreq, form, hret,
          vadds, vres, path, base, areq, addr, wcall, w, wpc,
          sess, flashed, sret, vld, vout, upl, uplret>>

----------------------------------------------------------------------------
(* Bounds and input alphabets.                                             *)

\* The longest message sequence a field of the receiver may hold.
MaxLen == 2

\* The longest message sequence a field of the merged-in set may hold.
MaxOther == 1

\* The longest message sequence a field of a, b and c may hold.
AssocLen == 1

\* The longest list of MIME types a FileValidator is given.
MaxMimes == 2

\* The longest request body, and uploaded part, in runs of bytes.
MaxBody == 2

\* The most Add calls a Validator makes.
MaxAdds == 2

\* The longest path, in characters.
MaxPath == 5

\* The longest content string handed to a response writer.
MaxContent == 2

\* The most fields added to a Validator.
MaxFields == 2

\* The longest chain handed to WrapError.
MaxWraps == 2

\* Field names used as keys.
Fields == {"title", "body"}

\* The texts of ErrRequired and ErrExists.
Msgs == {"field is required", "already exists"}

----------------------------------------------------------------------------
(* Go error values.  kind "nil" is the nil error interface; "plain" is an  *)
(* errors.New(msg); "conversion" is a schema.ConversionError whose Err is  *)
(* errors.New(msg) when hasErr, and nil otherwise.                         *)

NilErr == [kind |-> "nil", msg |-> "", hasErr |-> FALSE]

NewError(m) == [kind |-> "plain", msg |-> m, hasErr |-> FALSE]

ConversionError(inner) ==
    [kind |-> "conversion", msg |-> inner.msg, hasErr |-> inner.kind # "nil"]

\* The errors handed to Put.
PlainErrs == {NilErr} \cup {NewError(m) : m \in Msgs}

\* The errors handed to ValidationErrors.Add, which UnmarshalForm also
\* feeds with the members of a schema.MultiError.
ErrValues ==
    PlainErrs \cup {ConversionError(NilErr)}
              \cup {ConversionError(NewError(m)) : m \in Msgs}

\* err.Error().  Only defined for a non-nil err: a call through a nil
\* interface panics, which the callers below decide before using this.
ErrorString(err) ==
    IF err.kind = "conversion"
    THEN "schema: error converting value"
            \o (IF err.hasErr THEN ". Details: " \o err.msg ELSE "")
    ELSE err.msg

----------------------------------------------------------------------------
(* Error sets.                                                             *)

\* make(map[string][]string)
NewErrors == [f \in {} |-> <<>>]

\* NewValidationErrors()
NewValidationErrors == NewErrors

\* e[key] as Go reads it: the zero value (a nil slice) for an absent key.
Get(e, key) == IF key \in DOMAIN e THEN e[key] ELSE <<>>

\* e[key] = msgs
Set(e, key, msgs) ==
    [f \in DOMAIN e \cup {key} |-> IF f = key THEN msgs ELSE e[f]]

\* A plausible slip: the append is made before the nil check.
PutNoNilCheck(e, key, err) ==
    Set(e, key, IF err.kind = "nil" THEN Get(e, key)
                ELSE Append(Get(e, key), ErrorString(err)))

\* (*Errors).Put
Put(e, key, err) ==
    IF err.kind = "nil"
    THEN e
    ELSE Set(e, key, Append(Get(e, key), ErrorString(err)))

\* The error whose Error method ValidationErrors.Add calls: the Err of a
\* schema.ConversionError, the error itself otherwise.
AddUnwrap(err) ==
    IF err.kind = "conversion"
    THEN (IF err.hasErr THEN NewError(err.msg) ELSE NilErr)
    ELSE err

\* ValidationErrors.Add panics when err.Error() is called on a nil error;
\* the panic happens while the argument of append is evaluated, before the
\* map is assigned.
AddPanics(err) == AddUnwrap(err).kind = "nil"

\* ValidationErrors.Add, when it does not panic.
Add(e, key, err) ==
    Set(e, key, Append(Get(e, key), ErrorString(AddUnwrap(err))))

\* A plausible slip: the receiver's messages are overwritten, not appended to.
MergeOverwrite(e, e1) ==
    [f \in DOMAIN e \cup DOMAIN e1 |->
        IF f \in DOMAIN e1 THEN e1[f] ELSE e[f]]

\* (*Errors).Merge and ValidationErrors.Merge: for every key of e1,
\* e[key] = append(e[key], e1[key]...).  The iterations touch distinct keys,
\* so the map's iteration order does not show in the result.
Merge(e, e1) ==
    [f \in DOMAIN e \cup DOMAIN e1 |->
        IF f \in DOMAIN e1 THEN Get(e, f) \o e1[f] ELSE e[f]]

\* (*Errors).Err: TRUE when it returns nil.  Validate makes the same test,
\* len(errs) > 0, on a ValidationErrors.
ErrIsNil(e) == Cardinality(DOMAIN e) = 0

\* (*Errors).First
First(e, key) ==
    IF key \notin DOMAIN e THEN ""
    ELSE IF Len(e[key]) = 0 THEN ""
    ELSE e[key][1]

\* (*Errors).Has: a present field returns false at once, and an absent
\* field has no messages to range over.
Has(e, field, err) ==
    LET held == Get(e, field)
    IN  IF field \in DOMAIN e THEN FALSE
        ELSE \E i \in 1..Len(held) : ErrorString(err) = held[i]

\* ValidationErrors.First indexes errs[0] without a length check.
VFirstPanics(e, key) == key \in DOMAIN e /\ Len(e[key]) = 0

\* ValidationErrors.First, when it does not panic.
VFirst(e, key) == IF key \notin DOMAIN e THEN "" ELSE e[key][1]

----------------------------------------------------------------------------
(* Calls on the error sets.                                                *)

NoCall == [op |-> "none", key |-> "", err |-> "nil", ret |-> ""]

\* errs.Put(key, err)
PutCall ==
    \E key \in Fields, err \in PlainErrs :
        /\ status = "ok"
        /\ Len(Get(errs, key)) < MaxLen
        /\ errs' = Put(errs, key, err)
        /\ call' = [op |-> "Put", key |-> key, err |-> err.kind, ret |-> ""]
        /\ UNCHANGED <<other, status, assocVars, fvVars, upVars,
                       unVars, valVars, urlVars, respVars, sessVars, vldVars,
                       ffVars>>

\* errs.Add(key, err) on a ValidationErrors
AddCall ==
    \E key \in Fields, err \in ErrValues :
        /\ status = "ok"
        /\ Len(Get(errs, key)) < MaxLen
        /\ call' = [op |-> "Add", key |-> key, err |-> AddUnwrap(err).kind,
                    ret |-> ""]
        /\ IF AddPanics(err)
           THEN status' = "panic" /\ UNCHANGED errs
           ELSE errs' = Add(errs, key, err) /\ UNCHANGED status
        /\ UNCHANGED <<other, assocVars, fvVars, upVars,
                       unVars, valVars, urlVars, respVars, sessVars, vldVars,
                       ffVars>>

\* other.Put(key, err): the set that is merged in is built like the receiver.
PutOther ==
    \E key \in Fields, err \in PlainErrs :
        /\ status = "ok"
        /\ Len(Get(other, key)) < MaxOther
        /\ other' = Put(other, key, err)
        /\ call' = [op |-> "PutOther", key |-> key, err |-> err.kind,
                    ret |-> ""]
        /\ UNCHANGED <<errs, status, assocVars, fvVars, upVars,
                       unVars, valVars, urlVars, respVars, sessVars, vldVars,
                       ffVars>>

\* errs.Merge(other)
MergeCall ==
    /\ status = "ok"
    /\ \A f \in Fields : Len(Get(errs, f)) + Len(Get(other, f)) <= MaxLen
    /\ errs' = Merge(errs, other)
    /\ call' = [op |-> "Merge", key |-> "", err |-> "nil", ret |-> ""]
    /\ UNCHANGED <<other, status, assocVars, fvVars, upVars,
                   unVars, valVars, urlVars, respVars, sessVars, vldVars,
                   ffVars>>

\* errs.Err()
ErrCall ==
    /\ status = "ok"
    /\ call' = [op |-> "Err", key |-> "", err |-> "nil",
                ret |-> IF ErrIsNil(errs) THEN "nil" ELSE "errors"]
    /\ UNCHANGED <<errs, other, status, assocVars, fvVars, upVars,
                   unVars, valVars, urlVars, respVars, sessVars, vldVars,
                   ffVars>>

\* errs.First(key) on an *Errors
FirstCall ==
    \E key \in Fields :
        /\ status = "ok"
        /\ call' = [op |-> "First", key |-> key, err |-> "nil",
                    ret |-> First(errs, key)]
        /\ UNCHANGED <<errs, other, status, assocVars, fvVars, upVars,
                       unVars, valVars, urlVars, respVars, sessVars, vldVars,
                       ffVars>>

\* errs.Has(key, err) on an *Errors; err is not nil, and the call records
\* its message.
HasCall ==
    \E key \in Fields, err \in PlainErrs \ {NilErr} :
        /\ status = "ok"
        /\ call' = [op |-> "Has", key |-> key, err |-> ErrorString(err),
                    ret |-> IF Has(errs, key, err) THEN "true" ELSE "false"]
        /\ UNCHANGED <<errs, other, status, assocVars, fvVars, upVars,
                       unVars, valVars, urlVars, respVars, sessVars, vldVars,
                       ffVars>>

\* errs.First(key) on a ValidationErrors
VFirstCall ==
    \E key \in Fields :
        /\ status = "ok"
        /\ IF VFirstPanics(errs, key)
           THEN /\ status' = "panic"
                /\ call' = [op |-> "VFirst", key |-> key, err |-> "nil",
                            ret |-> ""]
           ELSE /\ call' = [op |-> "VFirst", key |-> key, err |-> "nil",
                            ret |-> VFirst(errs, key)]
                /\ UNCHANGED status
        /\ UNCHANGED <<errs, other, assocVars, fvVars, upVars,
                       unVars, valVars, urlVars, respVars, sessVars, vldVars,
                       ffVars>>

----------------------------------------------------------------------------
(* File validation: humanSize, FileValidator.Validate and Validate.        *)

\* The form field of the uploaded file.
FileField == "avatar"

\* MIME types: what sniffing yields and what a validator lists.
MimeTypes == {"image/jpeg", "image/png", "application/octet-stream"}

\* An int64 that is not negative, as its digits in base 1024, the lowest
\* first and no zero last: the values of an int64 exceed the integers that
\* can be computed with here.  Int64(n) is the int64 of a small n.
RECURSIVE Int64(_)
Int64(n) == IF n = 0 THEN <<>> ELSE <<n % 1024>> \o Int64(n \div 1024)

\* The integer that a small int64 stands for.
RECURSIVE IntOf(_)
IntOf(d) == IF d = <<>> THEN 0 ELSE d[1] + 1024 * IntOf(Tail(d))

\* math.MaxInt64, 2^63 - 1 = 7 * 1024^6 + (1024^6 - 1)
MaxInt64 == <<1023, 1023, 1023, 1023, 1023, 1023, 7>>

\* Byte counts given to humanSize: small ones, and the ones around
\* 1024^5, 1024^6 and 1025 * 1024^5 up to the largest int64.
SizeInputs ==
    {Int64(n) : n \in {0, 1, 1023, 1024, 1025, 1536, 2048, 1048576,
                       1048577, 1073741824}}
        \cup {<<0, 0, 0, 0, 0, 1>>, <<1, 0, 0, 0, 0, 1>>,
              <<0, 0, 0, 0, 0, 0, 1>>, <<1023, 1023, 1023, 1023, 1023, 0, 1>>,
              <<0, 0, 0, 0, 0, 1, 1>>, <<0, 0, 0, 0, 0, 0, 2>>, MaxInt64}

\* Maximum sizes of a FileValidator (0: no limit) and declared file sizes.
MaxSizes == {0, 1, 1024, 2048}

HeaderSizes == {0, 1, 1024, 1025, 2048}

units == <<"B", "KB", "MB", "GB", "TB", "PB">>

\* n > 1024 for an int64 n
Gt1024(n) == Len(n) > 2 \/ (Len(n) = 2 /\ (n[2] > 1 \/ n[1] > 0))

\* n / 1024 for an int64 n that is not zero
Div1024(n) == Tail(n)

\* humanSize's loop, for ; n > 1024; i++ { n /= 1024 }: the final <<n, i>>.
RECURSIVE humanLoop(_, _)
humanLoop(n, i) ==
    IF Gt1024(n) THEN humanLoop(Div1024(n), i + 1) ELSE <<n, i>>

\* units[i] is out of range: humanSize panics.
humanSizePanics(n) == humanLoop(n, 0)[2] >= Len(units)

\* humanSize, when it does not panic: fmt.Sprintf("%d %s", n, units[i]).
humanSize(n) ==
    LET r == humanLoop(n, 0)
    IN  ToString(IntOf(r[1])) \o " " \o units[r[2] + 1]

\* ErrFieldRequired of the ValidationErrors version.
ErrFieldRequired(field) == NewError(field \o " field is required")

\* strings.Join(mimes, ", ")
RECURSIVE Join(_)
Join(mimes) ==
    IF Len(mimes) = 0 THEN ""
    ELSE IF Len(mimes) = 1 THEN mimes[1]
    ELSE mimes[1] \o ", " \o Join(Tail(mimes))

\* v.HasFile()
HasFile(v) == v.File # "nil"

\* The error of the size check.
SizeError(v) ==
    NewError(v.Field \o " cannot be bigger than "
                 \o humanSize(Int64(v.Size)))

\* The error of the MIME check, by polarity.
MimeError(v) ==
    IF v.MimesAllowed
    THEN NewError(v.Field \o " must be one of " \o Join(v.Mimes))
    ELSE NewError(v.Field \o " cannot be one of " \o Join(v.Mimes))

\* A plausible slip: a file as large as the maximum is rejected too.
SizeCheckInclusive(v, e) ==
    IF v.Size > 0 /\ v.HeaderSize >= v.Size
    THEN Add(e, v.Field, SizeError(v))
    ELSE e

\* The size check of FileValidator.Validate.
SizeCheck(v, e) ==
    IF v.Size > 0 /\ v.HeaderSize > v.Size
    THEN Add(e, v.Field, SizeError(v))
    ELSE e

\* The loop over v.Mimes of FileValidator.Validate, from entry i on: every
\* entry for which (v.Type == mime) != v.MimesAllowed adds the MIME error.
RECURSIVE MimeLoop(_, _, _)
MimeLoop(v, e, i) ==
    IF i > Len(v.Mimes) THEN e
    ELSE MimeLoop(v,
                  IF (v.Type = v.Mimes[i]) # v.MimesAllowed
                  THEN Add(e, v.Field, MimeError(v))
                  ELSE e,
                  i + 1)

\* FileValidator.Validate panics only where humanSize does.
FileValidatePanics(v) ==
    /\ HasFile(v) /\ v.Size > 0 /\ v.HeaderSize > v.Size
    /\ humanSizePanics(Int64(v.Size))

\* A plausible slip: the return after the required message is missing.
FileValidateNoReturn(v, e) ==
    MimeLoop(v, SizeCheck(v, IF ~HasFile(v)
                             THEN Add(e, v.Field, ErrFieldRequired(v.Field))
                             ELSE e), 1)

\* FileValidator.Validate(errs), when it does not panic.
FileValidate(v, e) ==
    IF ~HasFile(v)
    THEN Add(e, v.Field, ErrFieldRequired(v.Field))
    ELSE MimeLoop(v, SizeCheck(v, e), 1)

\* Every list of at most n MIME types.
MimeLists(n) == UNION {[1..k -> MimeTypes] : k \in 0..n}

\* A validator over an uploaded file, and over a File that holds none.
FileValidators ==
    [File : {"open"}, HeaderSize : HeaderSizes, Type : MimeTypes,
     Field : {FileField}, Size : MaxSizes, Mimes : MimeLists(MaxMimes),
     MimesAllowed : BOOLEAN]
    \cup
    [File : {"nil"}, HeaderSize : {0}, Type : {""},
     Field : {FileField}, Size : MaxSizes, Mimes : MimeLists(MaxMimes),
     MimesAllowed : BOOLEAN]

NoHumanSize == [n |-> <<-1>>, out |-> ""]

\* humanSize(n)
HumanSizeCall ==
    \E n \in SizeInputs :
        /\ hs' = [n |-> n,
                  out |-> IF humanSizePanics(n) THEN "panic" ELSE humanSize(n)]
        /\ UNCHANGED <<fv, verrs, vret, errVars, assocVars, upVars,
                       unVars, valVars, urlVars, respVars, sessVars, vldVars,
                       ffVars>>

\* Validate(&v) for the FileValidator v: a new ValidationErrors is handed to
\* v.Validate, and returned when it holds a key.
ValidateCall ==
    /\ vret = "none"
    /\ IF FileValidatePanics(fv)
       THEN vret' = "panic" /\ UNCHANGED verrs
       ELSE /\ verrs' = FileValidate(fv, NewErrors)
            /\ vret' = IF ErrIsNil(verrs') THEN "nil" ELSE "errors"
    /\ UNCHANGED <<fv, hs, errVars, assocVars, upVars,
                   unVars, valVars, urlVars, respVars, sessVars, vldVars,
                   ffVars>>

\* No file is being validated.
FvIdle ==
    /\ fv = [File |-> "nil", HeaderSize |-> 0, Type |-> "", Field |-> FileField,
             Size |-> 0, Mimes |-> <<>>, MimesAllowed |-> FALSE]
    /\ verrs = NewErrors
    /\ vret = "idle"
    /\ hs = NoHumanSize

----------------------------------------------------------------------------
(* Unmarshalling a File from a request: File.UnmarshalRequest.             *)

\* The length of the buffer that unmarshalType reads into.
SniffLen == 512

\* Bytes of a body: the first byte of a JPEG, the first of a PNG, a byte of
\* text.
Bytes == {"J", "P", "t"}

\* The zero byte that make([]byte, 512) fills the buffer with.
Nul == "0"

\* The body size the large upload test is built around: 32 MiB.
defaultMaxMemory == 32 * 1024 * 1024

\* Content is a sequence of runs, a run being n equal bytes b, so that a body
\* can be longer than the sniffing buffer and than 32 MiB.
RunLens == {1, SniffLen, defaultMaxMemory}

Runs == [b : Bytes, n : RunLens]

\* Every content of at most n runs.
Datas(n) == UNION {[1..k -> Runs] : k \in 0..n}

\* The number of bytes of a content.
RECURSIVE DataLen(_)
DataLen(d) == IF d = <<>> THEN 0 ELSE Head(d).n + DataLen(Tail(d))

\* The first n bytes of a content, all of it when it is shorter.
RECURSIVE Take(_, _)
Take(d, n) ==
    IF n = 0 \/ d = <<>> THEN <<>>
    ELSE IF Head(d).n <= n THEN <<Head(d)>> \o Take(Tail(d), n - Head(d).n)
    ELSE <<[b |-> Head(d).b, n |-> n]>>

\* The content after its first n bytes.
RECURSIVE Drop(_, _)
Drop(d, n) ==
    IF n = 0 \/ d = <<>> THEN d
    ELSE IF Head(d).n <= n THEN Drop(Tail(d), n - Head(d).n)
    ELSE <<[b |-> Head(d).b, n |-> Head(d).n - n]>> \o Tail(d)

\* A Content-Type header is the pair <<media type, parameters>>, its value
\* their concatenation.  No media type used here is a prefix of another, so
\* strings.HasPrefix(value, prefix) is equality on the media type.
HasPrefix(ct, prefix) == ct[1] = prefix

MultipartType == <<"multipart/form-data", "; boundary=b">>

BodyTypes == {<<"image/jpeg", "">>, <<"application/json", "">>, <<"", "">>}

\* The file parts of a multipart form: the part of FileField, absent or with
\* its content, and another part that is there or not.
PartMaps ==
    UNION {[D -> Datas(MaxBody)] : D \in SUBSET {FileField}}
    \cup
    {[f \in D \cup {"doc"} |-> IF f = "doc" THEN <<[b |-> "t", n |-> 1]>>
                                ELSE x[f]] :
        D \in SUBSET {FileField}, x \in [{FileField} -> Datas(MaxBody)]}

\* A request: a multipart form (FormErr: "parse" when ParseMultipartForm
\* fails, "open" when opening the part fails), or a body that is the file
\* (BodyErr: reading the body fails).
Requests ==
    [ContentType : {MultipartType}, Parts : PartMaps,
     FormErr : {"none", "parse", "open"}, Body : {<<>>}, BodyErr : {FALSE}]
    \cup
    [ContentType : BodyTypes, Parts : {<<>>},
     FormErr : {"none"}, Body : Datas(MaxBody), BodyErr : BOOLEAN]

\* &File{Field: FileField}
NewFile ==
    [File |-> "nil", Data |-> <<>>, Pos |-> 0, Read |-> 0, Header |-> "nil",
     Size |-> 0, Type |-> "", Field |-> FileField]

\* r.FormFile(field): the file, its header and the error.
FormFile(r, field) ==
    IF r.FormErr = "parse"
    THEN [File |-> "nil", Data |-> <<>>, Header |-> "nil", Size |-> 0,
          err |-> "error"]
    ELSE IF field \in DOMAIN r.Parts
    THEN IF r.FormErr = "open"
         THEN [File |-> "nil", Data |-> <<>>, Header |-> "set",
               Size |-> DataLen(r.Parts[field]), err |-> "error"]
         ELSE [File |-> "open", Data |-> r.Parts[field], Header |-> "set",
               Size |-> DataLen(r.Parts[field]), err |-> "nil"]
    ELSE [File |-> "nil", Data |-> <<>>, Header |-> "nil", Size |-> 0,
          err |-> "ErrMissingFile"]

\* http.DetectContentType(hdr) on the bytes modelled: the signature of a JPEG
\* or of a PNG at the start, else text when no byte is binary (the zero byte
\* is), else application/octet-stream.
DetectContentType(hdr) ==
    IF Len(hdr) > 0 /\ hdr[1].b = "J" THEN "image/jpeg"
    ELSE IF Len(hdr) > 0 /\ hdr[1].b = "P" THEN "image/png"
    ELSE IF \A i \in 1..Len(hdr) : hdr[i].b = "t"
    THEN "text/plain; charset=utf-8"
    ELSE "application/octet-stream"

Min(a, b) == IF a < b THEN a ELSE b

\* hdr := make([]byte, 512) after f.Read(hdr) delivered read: the bytes read,
\* then the zero bytes the buffer was made with.
SniffBuffer(read) ==
    IF DataLen(read) < SniffLen
    THEN read \o <<[b |-> Nul, n |-> SniffLen - DataLen(read)]>>
    ELSE read

\* f.unmarshalType(): reads up to SniffLen bytes into hdr, seeks back to the
\* start and sets Type from the whole of hdr.  A Read at the end of the file
\* returns io.EOF, and the function returns it with the position and Type as
\* they were.  Read counts the bytes the Read call delivered.
unmarshalType(f) ==
    LET read == Take(Drop(f.Data, f.Pos), SniffLen)
    IN  IF DataLen(read) = 0
        THEN [file |-> f, err |-> "EOF"]
        ELSE [file |-> [f EXCEPT !.Pos = 0,
                                 !.Read = @ + DataLen(read),
                                 !.Type = DetectContentType(SniffBuffer(read))],
              err |-> "nil"]

\* A plausible slip: the missing file is returned as an error.
FormFileReturnAll(err) == "error"

\* What UnmarshalRequest returns when FormFile failed with err: nil for
\* http.ErrMissingFile, the error otherwise.
FormFileReturn(err) == IF err = "ErrMissingFile" THEN "nil" ELSE "error"

\* A plausible slip: the test of an empty body is left out.
BodyIsEmptyNever(size) == FALSE

\* size == 0: the body held no byte.
BodyIsEmpty(size) == size = 0

\* f.UnmarshalRequest(r): the File afterwards and the error returned.
UnmarshalRequest(f, r) ==
    IF HasPrefix(r.ContentType, "multipart/form-data")
    THEN LET ff == FormFile(r, f.Field)
             f1 == [f EXCEPT !.File = ff.File, !.Data = ff.Data,
                             !.Header = ff.Header, !.Size = ff.Size]
         IN  IF ff.err # "nil"
             THEN [file |-> f1, ret |-> FormFileReturn(ff.err)]
             ELSE LET ut == unmarshalType(f1)
                  IN  [file |-> ut.file,
                       ret |-> IF ut.err # "nil" THEN ut.err ELSE "nil"]
    ELSE IF r.BodyErr
    THEN [file |-> f, ret |-> "error"]
    ELSE LET size == DataLen(r.Body)
         IN  IF BodyIsEmpty(size)
             THEN [file |-> f, ret |-> "nil"]
             ELSE LET f1 == [f EXCEPT !.File = "sectionReadCloser",
                                     !.Data = r.Body,
                                     !.Header = "set", !.Size = size]
                      ut == unmarshalType(f1)
                  IN  [file |-> ut.file,
                       ret |-> IF ut.err \notin {"nil", "EOF"}
                               THEN ut.err ELSE "nil"]

\* file.UnmarshalRequest(req)
UnmarshalRequestCall ==
    /\ uret = "none"
    /\ file' = UnmarshalRequest(file, req).file
    /\ uret' = UnmarshalRequest(file, req).ret
    /\ UNCHANGED <<req, errVars, assocVars, fvVars,
                   unVars, valVars, urlVars, respVars, sessVars, vldVars,
                   ffVars>>

\* No file is being unmarshalled.
UpIdle ==
    /\ req = [ContentType |-> <<"", "">>, Parts |-> <<>>, FormErr |-> "none",
              Body |-> <<>>, BodyErr |-> FALSE]
    /\ file = NewFile
    /\ uret = "idle"

----------------------------------------------------------------------------
(* Unmarshalling a form from a request: FormUnmarshaler.UnmarshalRequest,  *)
(* UnmarshalForm and UnmarshalFormWithFile, and the earlier Unmarshal and  *)
(* UnmarshalAndValidate.                                                   *)

\* The value a field has in the URL query, in the posted form, in a JSON
\* body, and in a Post that was filled before the call.
QueryValue == "q"

PostValue == "p"

JsonValue == "j"

OldValue == "x"

\* url.Values over the fields of a Post, every key holding the one value v.
Values(v) == UNION {[D -> {<<v>>}] : D \in SUBSET Fields}

\* r.Form: nil until the form is parsed.
NilForm == [set |-> FALSE, vals |-> <<>>]

FormOf(vals) == [set |-> TRUE, vals |-> vals]

\* The Post handed to the call: empty, or filled.
Posts == {[f \in Fields |-> ""], [f \in Fields |-> OldValue]}

\* The errors a decoder returns.  key is the Key or Field of the error, value
\* and typ the Value and Type of a *json.UnmarshalTypeError, inner the Err of
\* an UnmarshalError, members the map of a schema.MultiError.
DecodeErr(kind, key, value, typ, inner, members) ==
    [kind |-> kind, key |-> key, value |-> value, typ |-> typ,
     inner |-> inner, members |-> members]

NoErr == DecodeErr("nil", "", "", "", NilErr, <<>>)

EOF == DecodeErr("io.EOF", "", "", "", NilErr, <<>>)

SyntaxError == DecodeErr("*json.SyntaxError", "", "", "", NilErr, <<>>)

ParseError == DecodeErr("ParseForm", "", "", "", NilErr, <<>>)

InvalidDecoderError == DecodeErr("schema: invalid", "", "", "", NilErr, <<>>)

EmptyFieldError(key) ==
    DecodeErr("schema.EmptyFieldError", key, "", "", NilErr, <<>>)

MultiError(members) ==
    DecodeErr("schema.MultiError", "", "", "", NilErr, members)

UnmarshalTypeError(field, value, typ) ==
    DecodeErr("*json.UnmarshalTypeError", field, value, typ, NilErr, <<>>)

UnmarshalError(field, inner) ==
    DecodeErr("UnmarshalError", field, "", "", inner, <<>>)

\* The members of a schema.MultiError: a schema.ConversionError without an
\* Err (a built-in converter rejected the value) or with one.
ConvErrs ==
    {ConversionError(NilErr), ConversionError(NewError("already exists"))}

MultiErrors ==
    {MultiError(m) : m \in UNION {[D -> ConvErrs] : D \in SUBSET Fields \ {{}}}}

\* What schema.Decoder.Decode returns.
SchemaErrs ==
    {NoErr, InvalidDecoderError} \cup {EmptyFieldError(k) : k \in Fields}
        \cup MultiErrors

\* What r.Body holds (Json, with Consumed once it was read), by what
\* json.Decoder.Decode makes of it: no byte; an
\* object with both fields; an object whose title is a number; text that is
\* not JSON; an object for which the Form's UnmarshalJSON returns an
\* UnmarshalError.
JsonBodies == {"empty", "object", "mistyped", "malformed", "rejected"}

\* json.NewDecoder(r.Body).Decode(f): the form afterwards and the error.
jsonDecode(body, f) ==
    IF body = "empty" THEN [form |-> f, err |-> EOF]
    ELSE IF body = "object"
    THEN [form |-> [k \in Fields |-> JsonValue], err |-> NoErr]
    ELSE IF body = "mistyped"
    THEN [form |-> [f EXCEPT !["body"] = JsonValue],
          err |-> UnmarshalTypeError("Title", "number", "string")]
    ELSE IF body = "malformed" THEN [form |-> f, err |-> SyntaxError]
    ELSE [form |-> f,
          err |-> UnmarshalError("title", NewError("already exists"))]

\* What is left of r.Body to read.
Remaining(r) == IF r.Consumed THEN "empty" ELSE r.Json

\* The fields that the error of schema's Decode names.
Failed(err) ==
    IF err.kind = "schema.EmptyFieldError" THEN {err.key}
    ELSE IF err.kind = "schema.MultiError" THEN DOMAIN err.members
    ELSE {}

\* f.Decoder.Decode(f.Form, r.Form) with unknown keys ignored: every field
\* sent and converted is set, to the last of its values, and err is what the
\* decoder found.
schemaDecode(f, vals, err) ==
    IF err.kind = "schema: invalid" THEN [form |-> f, err |-> err]
    ELSE [form |-> [k \in Fields |->
                       IF k \in DOMAIN vals /\ k \notin Failed(err)
                       THEN vals[k][Len(vals[k])] ELSE f[k]],
          err |-> err]

\* r.ParseForm(): r.Form holds the posted values and the query's, the
\* posted values first for a key sent in both.  A posted form is read from
\* the body.
ParseForm(r) ==
    [r EXCEPT !.Form = FormOf([k \in DOMAIN r.PostForm \cup DOMAIN r.Query |->
                                  Get(r.PostForm, k) \o Get(r.Query, k)]),
              !.Consumed = @ \/ HasPrefix(r.ContentType,
                                          "application/x-www-form-urlencoded")]

\* A plausible slip: the header is compared, its parameters included.
IsJSONExact(ct) == ct = <<"application/json", "">>

\* strings.HasPrefix(r.Header.Get("Content-Type"), "application/json")
IsJSON(ct) == HasPrefix(ct, "application/json")

\* A plausible slip: io.EOF is returned like any other error.
IsEOFNever(err) == FALSE

\* errors.Is(err, io.EOF)
IsEOF(err) == err.kind = "io.EOF"

\* FormUnmarshaler.UnmarshalRequest(r): the form and the request afterwards,
\* the error returned, and the decoders that ran, in order.
FormUnmarshalRequest(f, r) ==
    IF IsJSON(r.ContentType)
    THEN LET d == jsonDecode(Remaining(r), f)
         IN  [form |-> d.form, req |-> [r EXCEPT !.Consumed = TRUE],
              steps |-> <<"json">>,
              err |-> IF d.err.kind # "nil" /\ ~IsEOF(d.err)
                      THEN d.err ELSE NoErr]
    ELSE IF ~r.Form.set /\ r.ParseErr
    THEN [form |-> f, req |-> r, steps |-> <<"ParseForm">>,
          err |-> ParseError]
    ELSE LET r1 == IF r.Form.set THEN r ELSE ParseForm(r)
             d == schemaDecode(f, r1.Form.vals, r.Schema)
         IN  [form |-> d.form, req |-> r1,
              steps |-> (IF r.Form.set THEN <<>> ELSE <<"ParseForm">>)
                            \o <<"schema">>,
              err |-> d.err]

\* The json tag of the struct field that a *json.UnmarshalTypeError names,
\* the name itself when the Post has no such field.
JsonTag(name) ==
    IF name = "Title" THEN "title"
    ELSE IF name = "Body" THEN "body"
    ELSE name

\* for field, err := range v { verrs.Add(field, err) } over the keys D.  The
\* iterations touch distinct keys, so their order does not show.
RECURSIVE AddEach(_, _, _)
AddEach(e, members, D) ==
    IF D = {} THEN e
    ELSE LET k == CHOOSE x \in D : TRUE
         IN  AddEach(Add(e, k, members[k]), members, D \ {k})

\* The error set that UnmarshalForm makes of a recognised error, and whether
\* one of its Add calls panics.
Normalise(err) ==
    IF err.kind = "schema.EmptyFieldError"
    THEN [panics |-> FALSE,
          verrs |-> Add(NewErrors, err.key, ErrFieldRequired(err.key))]
    ELSE IF err.kind = "schema.MultiError"
    THEN IF \E k \in DOMAIN err.members : AddPanics(err.members[k])
         THEN [panics |-> TRUE, verrs |-> NewErrors]
         ELSE [panics |-> FALSE,
               verrs |-> AddEach(NewErrors, err.members, DOMAIN err.members)]
    ELSE IF err.kind = "*json.UnmarshalTypeError"
    THEN [panics |-> FALSE,
          verrs |-> Add(NewErrors, JsonTag(err.key),
                        NewError("cannot unmarshal " \o err.value \o " to "
                                     \o err.typ))]
    ELSE IF AddPanics(err.inner)
    THEN [panics |-> TRUE, verrs |-> NewErrors]
    ELSE [panics |-> FALSE, verrs |-> Add(NewErrors, err.key, err.inner)]

\* The types of the type switch of UnmarshalForm.  encoding/json never
\* returns the deprecated *json.UnmarshalFieldError.
Recognised ==
    {"schema.EmptyFieldError", "schema.MultiError",
     "*json.UnmarshalTypeError", "UnmarshalError"}

\* A plausible slip: the default case of the type switch does not return,
\* so the new, empty set is returned for an error of another type.
UnmarshalFormNoDefault(f, r) ==
    LET u == FormUnmarshalRequest(f, r)
        base0 == [form |-> u.form, req |-> u.req, steps |-> u.steps,
                  cause |-> u.err, ret |-> "nil", verrs |-> NewErrors,
                  err |-> NoErr]
    IN  IF u.err.kind = "nil" THEN base0
        ELSE IF u.err.kind \in Recognised
        THEN IF Normalise(u.err).panics
             THEN [base0 EXCEPT !.ret = "panic"]
             ELSE [base0 EXCEPT !.ret = "ValidationErrors",
                                !.verrs = Normalise(u.err).verrs]
        ELSE [base0 EXCEPT !.ret = "ValidationErrors"]

\* UnmarshalForm(f, r): the form and the request afterwards, the decoders
\* that ran, the error of UnmarshalRequest (cause) and what is returned:
\* nil, the ValidationErrors verrs, or the error err; or the call panics.
UnmarshalForm(f, r) ==
    LET u == FormUnmarshalRequest(f, r)
        base0 == [form |-> u.form, req |-> u.req, steps |-> u.steps,
                  cause |-> u.err, ret |-> "nil", verrs |-> NewErrors,
                  err |-> NoErr]
    IN  IF u.err.kind = "nil" THEN base0
        ELSE IF u.err.kind \in Recognised
        THEN IF Normalise(u.err).panics
             THEN [base0 EXCEPT !.ret = "panic"]
             ELSE [base0 EXCEPT !.ret = "ValidationErrors",
                                !.verrs = Normalise(u.err).verrs]
        ELSE [base0 EXCEPT !.ret = "error", !.err = u.err]

\* The Content-Type headers of form requests.
JsonTypes ==
    {<<"application/json", "">>, <<"application/json", "; charset=utf-8">>}

FormTypes == {<<"application/x-www-form-urlencoded", "">>, <<"", "">>}

\* r.Form as a handler or a test may have set it before the call.
Parsed == {NilForm, FormOf(<<>>), FormOf([k \in Fields |-> <<PostValue>>])}

\* The requests a form is unmarshalled from: JSON requests and form
\* requests (ParseErr: r.ParseForm fails).
FormRequests ==
    [ContentType : JsonTypes, Json : JsonBodies, Form : Parsed,
     Query : Values(QueryValue), PostForm : {<<>>}, ParseErr : {FALSE},
     Schema : {NoErr, EmptyFieldError("title")}, Consumed : {FALSE}]
    \cup
    [ContentType : FormTypes, Json : {"empty", "object"}, Form : Parsed,
     Query : Values(QueryValue), PostForm : Values(PostValue),
     ParseErr : BOOLEAN, Schema : SchemaErrs, Consumed : {FALSE}]

\* No call has been made yet.
NoReturn(op) ==
    [op |-> op, ret |-> "", verrs |-> NewErrors, err |-> NoErr,
     cause |-> NoErr, before |-> [k \in Fields |-> ""], steps |-> <<>>,
     validated |-> 0]

\* UnmarshalForm(&form, hreq)
UnmarshalFormCall ==
    /\ hret.op = "none"
    /\ LET u == UnmarshalForm(form, hreq)
       IN  /\ form' = u.form
           /\ hreq' = u.req
           /\ hret' = [op |-> "UnmarshalForm", ret |-> u.ret,
                       verrs |-> u.verrs, err |-> u.err, cause |-> u.cause,
                       before |-> form, steps |-> u.steps, validated |-> 0]
    /\ UNCHANGED <<errVars, assocVars, fvVars, upVars, valVars, urlVars,
                   respVars, sessVars, vldVars, ffVars>>

\* ErrFieldRequired of the Errors version.
ErrFieldIsRequired(field) == NewError(field \o " is required")

\* An *Errors returned as an error.
ErrorsErr(e) == DecodeErr("*Errors", "", "", "", NilErr, e)

\* Post.Validate(): the *Errors that errs.Err() returns, no key meaning nil.
PostValidate(f) ==
    LET e1 == IF f["title"] = ""
              THEN Put(NewErrors, "title", ErrFieldIsRequired("Title"))
              ELSE NewErrors
    IN  IF f["body"] = ""
        THEN Put(e1, "body", ErrFieldIsRequired("Body"))
        ELSE e1

\* f.Validate() as an error: nil, or the *Errors.
ValidateErr(f) ==
    IF ErrIsNil(PostValidate(f)) THEN NoErr ELSE ErrorsErr(PostValidate(f))

\* Unmarshal(f, r): the form and the request afterwards, the decoders that
\* ran, the error of the decoder (cause), the error returned and the number
\* of calls of f.Validate.
Unmarshal(f, r) ==
    IF IsJSON(r.ContentType)
    THEN LET d == jsonDecode(Remaining(r), f)
         IN  [form |-> d.form, req |-> [r EXCEPT !.Consumed = TRUE],
              steps |-> <<"json">>, cause |-> d.err,
              err |-> IF d.err = EOF THEN ValidateErr(d.form) ELSE d.err,
              validated |-> IF d.err = EOF THEN 1 ELSE 0]
    ELSE IF ~r.Form.set /\ r.ParseErr
    THEN [form |-> f, req |-> r, steps |-> <<"ParseForm">>,
          cause |-> ParseError, err |-> ParseError, validated |-> 0]
    ELSE LET r1 == IF r.Form.set THEN r ELSE ParseForm(r)
             d == schemaDecode(f, r1.Form.vals, r.Schema)
         IN  [form |-> d.form, req |-> r1,
              steps |-> <<"ParseForm", "schema">>, cause |-> d.err,
              err |-> d.err, validated |-> 0]

\* for k, err := range v { errs.Put(k, err) } over the keys D.
RECURSIVE PutEach(_, _, _)
PutEach(e, members, D) ==
    IF D = {} THEN e
    ELSE LET k == CHOOSE x \in D : TRUE
         IN  PutEach(Put(e, k, members[k]), members, D \ {k})

\* A plausible slip: the default case does not return.
ShapedAll(kind) == TRUE

\* The cases of the type switch of UnmarshalAndValidate.
Shaped(kind) ==
    kind \in {"schema.EmptyFieldError", "schema.MultiError", "UnmarshalError"}

\* The messages UnmarshalAndValidate records for the error of Unmarshal.
Recorded(err) ==
    IF err.kind = "schema.EmptyFieldError"
    THEN Put(NewErrors, err.key, ErrFieldIsRequired(err.key))
    ELSE IF err.kind = "schema.MultiError"
    THEN PutEach(NewErrors, err.members, DOMAIN err.members)
    ELSE IF err.kind = "UnmarshalError"
    THEN Put(NewErrors, err.key, err.inner)
    ELSE NewErrors

\* UnmarshalAndValidate(f, r)
UnmarshalAndValidate(f, r) ==
    LET u == Unmarshal(f, r)
        base0 == [form |-> u.form, req |-> u.req, steps |-> u.steps,
                  cause |-> u.cause, ret |-> "nil", verrs |-> NewErrors,
                  err |-> NoErr, validated |-> u.validated]
        errs0 == Merge(Recorded(u.err), PostValidate(u.form))
    IN  IF u.err.kind # "nil" /\ ~Shaped(u.err.kind)
        THEN IF u.err.kind = "*Errors"
             THEN [base0 EXCEPT !.ret = "Errors", !.verrs = u.err.members,
                                !.err = u.err]
             ELSE [base0 EXCEPT !.ret = "error", !.err = u.err]
        ELSE [base0 EXCEPT !.validated = @ + 1,
                           !.ret = IF ErrIsNil(errs0) THEN "nil" ELSE "Errors",
                           !.verrs = errs0]

\* UnmarshalAndValidate(&form, hreq)
UnmarshalAndValidateCall ==
    /\ hret.op = "none"
    /\ LET u == UnmarshalAndValidate(form, hreq)
       IN  /\ form' = u.form
           /\ hreq' = u.req
           /\ hret' = [op |-> "UnmarshalAndValidate", ret |-> u.ret,
                       verrs |-> u.verrs, err |-> u.err, cause |-> u.cause,
                       before |-> form, steps |-> u.steps,
                       validated |-> u.validated]
    /\ UNCHANGED <<errVars, assocVars, fvVars, upVars, valVars, urlVars,
                   respVars, sessVars, vldVars, ffVars>>

\* r after file.UnmarshalRequest(r): r.FormFile parses the multipart form,
\* which puts the query's values and then the multipart values in r.Form;
\* otherwise the body was copied into the file.  Either way r.Body is read.
AfterFile(r) ==
    IF HasPrefix(r.ContentType, "multipart/form-data") /\ r.FormErr # "parse"
    THEN [r EXCEPT !.Form = FormOf([k \in DOMAIN r.Query \cup DOMAIN r.PostForm
                                       |-> Get(r.Query, k) \o Get(r.PostForm, k)]),
                   !.Consumed = TRUE]
    ELSE [r EXCEPT !.Consumed = TRUE]

\* The error of file.UnmarshalRequest as UnmarshalFormWithFile returns it.
FileErr(kind) == DecodeErr(kind, "", "", "", NilErr, <<>>)

\* UnmarshalFormWithFile(f, file, r): the form, the file and the request
\* afterwards and what is returned, as for UnmarshalForm.
UnmarshalFormWithFile(f, fl, r) ==
    LET u == UnmarshalRequest(fl, r)
        r1 == AfterFile(r)
        r2 == IF ~HasPrefix(r.ContentType, "multipart/form-data")
              THEN [r1 EXCEPT !.Form = FormOf(r.Query)]
              ELSE r1
    IN  IF u.ret # "nil"
        THEN [form |-> f, file |-> u.file, req |-> r1, steps |-> <<>>,
              cause |-> NoErr, ret |-> "error", verrs |-> NewErrors,
              err |-> FileErr(u.ret)]
        ELSE [form |-> UnmarshalForm(f, r2).form, file |-> u.file,
              req |-> UnmarshalForm(f, r2).req,
              steps |-> UnmarshalForm(f, r2).steps,
              cause |-> UnmarshalForm(f, r2).cause,
              ret |-> UnmarshalForm(f, r2).ret,
              verrs |-> UnmarshalForm(f, r2).verrs,
              err |-> UnmarshalForm(f, r2).err]

\* The requests a file and a form are unmarshalled from: a multipart form
\* with its values and file part, a body that is the file, and a JSON body
\* that is the file.
FileFormRequests ==
    [ContentType : {MultipartType},
     Parts : {<<>>, [f \in {FileField} |-> <<[b |-> "J", n |-> 1]>>]},
     FormErr : {"none", "parse"}, Body : {<<>>}, BodyErr : {FALSE},
     Json : {"malformed"}, Form : {NilForm}, Query : Values(QueryValue),
     PostForm : Values(PostValue), ParseErr : {FALSE},
     Schema : {NoErr, EmptyFieldError("title")}, Consumed : {FALSE}]
    \cup
    [ContentType : {<<"image/jpeg", "">>, <<"", "">>}, Parts : {<<>>},
     FormErr : {"none"}, Body : Datas(1), BodyErr : BOOLEAN,
     Json : {"malformed"}, Form : {NilForm}, Query : Values(QueryValue),
     PostForm : {<<>>}, ParseErr : {FALSE},
     Schema : {NoErr, EmptyFieldError("title")}, Consumed : {FALSE}]
    \cup
    [ContentType : JsonTypes, Parts : {<<>>},
     FormErr : {"none"}, Body : {<<[b |-> "t", n |-> 1]>>}, BodyErr : BOOLEAN,
     Json : {"object"}, Form : {NilForm}, Query : Values(QueryValue),
     PostForm : {<<>>}, ParseErr : {FALSE},
     Schema : {NoErr}, Consumed : {FALSE}]

\* UnmarshalFormWithFile(&form, &file, hreq)
UnmarshalFormWithFileCall ==
    /\ hret.op = "none"
    /\ LET u == UnmarshalFormWithFile(form, file, hreq)
       IN  /\ form' = u.form
           /\ file' = u.file
           /\ hreq' = u.req
           /\ hret' = [op |-> "UnmarshalFormWithFile", ret |-> u.ret,
                       verrs |-> u.verrs, err |-> u.err, cause |-> u.cause,
                       before |-> form, steps |-> u.steps, validated |-> 0]
    /\ UNCHANGED <<req, uret, errVars, assocVars, fvVars, valVars, urlVars,
                   respVars, sessVars, vldVars, ffVars>>

\* No form is being unmarshalled.
UnIdle ==
    /\ hreq = [ContentType |-> <<"", "">>, Json |-> "empty", Form |-> NilForm,
               Query |-> <<>>, PostForm |-> <<>>, ParseErr |-> FALSE,
               Schema |-> NoErr, Consumed |-> FALSE]
    /\ form = [k \in Fields |-> ""]
    /\ hret = NoReturn("idle")

----------------------------------------------------------------------------
(* Validate(v): running a Validator on a new ValidationErrors.             *)

\* A Validator, by the calls errs.Add(key, err) its Validate method makes:
\* every sequence of at most n calls.
Validators(n) == UNION {[1..k -> [key : Fields, err : ErrValues]] : k \in 0..n}

\* v.Validate(errs): the Add calls in order, up to one that panics.
RECURSIVE RunValidator(_, _)
RunValidator(e, adds) ==
    IF adds = <<>> THEN [panics |-> FALSE, errs |-> e]
    ELSE IF AddPanics(Head(adds).err) THEN [panics |-> TRUE, errs |-> e]
    ELSE RunValidator(Add(e, Head(adds).key, Head(adds).err), Tail(adds))

\* A plausible slip: the test is off by one.
HasErrorsMany(e) == Cardinality(DOMAIN e) > 1

\* len(errs) > 0
HasErrors(e) == Cardinality(DOMAIN e) > 0

\* Validate(v): what is returned, nil or the ValidationErrors.
Validate(adds) ==
    LET r == RunValidator(NewValidationErrors, adds)
    IN  IF r.panics THEN [ret |-> "panic", errs |-> r.errs]
        ELSE IF HasErrors(r.errs)
        THEN [ret |-> "ValidationErrors", errs |-> r.errs]
        ELSE [ret |-> "nil", errs |-> r.errs]

\* Validate(v) for the Validator vadds
ValidateAddsCall ==
    /\ vres.ret = "none"
    /\ vres' = Validate(vadds)
    /\ UNCHANGED <<vadds, errVars, assocVars, fvVars, upVars, unVars, urlVars,
                   respVars, sessVars, vldVars, ffVars>>

\* No Validator is being run.
ValIdle ==
    /\ vadds = <<>>
    /\ vres = [ret |-> "idle", errs |-> NewErrors]

----------------------------------------------------------------------------
(* BasePath and BaseAddress.  A path is the sequence of its characters.    *)

\* The characters of a path: the separator, a letter and a backslash.
Chars == {"/", "a", "\\"}

\* Every path of at most n characters.
Paths(n) == UNION {[1..k -> Chars] : k \in 0..n}

\* strings.Split(s, sep) for the one-character separator sep.
RECURSIVE Split(_, _)
Split(s, sep) ==
    IF \A i \in 1..Len(s) : s[i] # sep THEN <<s>>
    ELSE LET i == CHOOSE j \in 1..Len(s) :
                      s[j] = sep /\ \A k \in 1..(j - 1) : s[k] # sep
         IN  <<SubSeq(s, 1, i - 1)>> \o Split(SubSeq(s, i + 1, Len(s)), sep)

\* strings.TrimSuffix(s, suffix) for the one-character suffix.
TrimSuffix(s, suffix) ==
    IF Len(s) > 0 /\ s[Len(s)] = suffix THEN SubSeq(s, 1, Len(s) - 1) ELSE s

\* A plausible slip: the test of an empty last element is left out.
EmptyBaseNever(b) == FALSE

\* base == ""
EmptyBase(b) == b = <<>>

\* BasePath(path)
BasePath(p) ==
    IF p = <<>> \/ p = <<"/">> THEN <<"/">>
    ELSE LET parts == Split(p, "/")
             b == TrimSuffix(parts[Len(parts)], "/")
         IN  IF EmptyBase(b) THEN <<"/">> ELSE b

\* The values of a header of the request: absent, or present with values.
ProtoHeaders == {<<>>, <<"">>, <<"https">>, <<"http", "https">>}

HostHeaders == {<<>>, <<"">>, <<"example.com">>}

\* The requests handed to BaseAddress: the two headers, whether r.TLS is
\* set, and r.Host.
AddrRequests ==
    [Proto : ProtoHeaders, FwdHost : HostHeaders, TLS : BOOLEAN,
     Host : {"", "localhost:8080"}]

\* r.Header.Get(name): the first value of the header, "" without one.
HeaderGet(values) == IF Len(values) = 0 THEN "" ELSE values[1]

\* A plausible slip: the forwarded host is used only with a forwarded scheme.
BaseAddressCoupled(r) ==
    IF HeaderGet(r.Proto) = ""
    THEN (IF r.TLS THEN "https" ELSE "http") \o "://" \o r.Host
    ELSE HeaderGet(r.Proto) \o "://"
             \o (IF HeaderGet(r.FwdHost) = "" THEN r.Host
                 ELSE HeaderGet(r.FwdHost))

\* BaseAddress(r)
BaseAddress(r) ==
    LET scheme0 == HeaderGet(r.Proto)
        host0 == HeaderGet(r.FwdHost)
        scheme == IF scheme0 = ""
                  THEN (IF r.TLS THEN "https" ELSE "http")
                  ELSE scheme0
        host == IF host0 = "" THEN r.Host ELSE host0
    IN  scheme \o "://" \o host

\* BasePath(path)
BasePathCall ==
    /\ ~base.done
    /\ base' = [done |-> TRUE, out |-> BasePath(path)]
    /\ UNCHANGED <<path, areq, addr, errVars, assocVars, fvVars, upVars,
                   unVars, valVars, respVars, sessVars, vldVars, ffVars>>

\* BaseAddress(areq)
BaseAddressCall ==
    /\ ~addr.done
    /\ addr' = [done |-> TRUE, out |-> BaseAddress(areq)]
    /\ UNCHANGED <<path, base, areq, errVars, assocVars, fvVars, upVars,
                   unVars, valVars, respVars, sessVars, vldVars, ffVars>>

\* Neither BasePath nor BaseAddress is being called.
UrlIdle ==
    /\ path = <<>>
    /\ base = [done |-> TRUE, out |-> <<>>]
    /\ areq = [Proto |-> <<>>, FwdHost |-> <<>>, TLS |-> FALSE, Host |-> ""]
    /\ addr = [done |-> TRUE, out |-> ""]

----------------------------------------------------------------------------
(* The response writers HTML, Text and JSON.  The http.ResponseWriter is   *)
(* the host's: it is modelled as a recorder of the calls made on it.  A    *)
(* body is the sequence of its bytes.                                      *)

\* The bytes of a content string: a letter and a character that
\* encoding/json escapes.
ContentChars == {"a", "<"}

\* Every content string of at most n bytes.
Contents(n) == UNION {[1..k -> ContentChars] : k \in 0..n}

\* The status codes handed to the writers.
StatusCodes == {200, 404, 500}

\* The values handed to JSON: nil, a string, and a channel, which
\* encoding/json cannot encode.
JsonDatas(n) ==
    {[kind |-> "nil", s |-> <<>>], [kind |-> "chan", s |-> <<>>]}
        \cup {[kind |-> "string", s |-> c] : c \in Contents(n)}

\* A ResponseWriter no call was made on.
NewRecorder == [header |-> [k \in {} |-> ""], code |-> <<>>,
                body |-> <<>>, log |-> <<>>]

\* The calls a response writer makes on w.
HeaderSet(key, value) == [op |-> "Set", key |-> key, value |-> value]

WriteHeader(code) == [op |-> "WriteHeader", key |-> "", value |-> code]

Write(b) == [op |-> "Write", key |-> "", value |-> b]

\* The effect of one call on the ResponseWriter.
Serve(rw, c) ==
    LET logged == [rw EXCEPT !.log = Append(@, c.op)]
    IN  CASE c.op = "Set" ->
                 [logged EXCEPT !.header =
                      [k \in DOMAIN rw.header \cup {c.key} |->
                           IF k = c.key THEN c.value ELSE rw.header[k]]]
          [] c.op = "WriteHeader" ->
                 [logged EXCEPT !.code = Append(@, c.value)]
          [] c.op = "Write" ->
                 [logged EXCEPT !.body = Append(@, c.value)]

\* strconv.FormatInt(int64(n), 10)
FormatInt(n) == ToString(n)

\* The bytes encoding/json writes for one byte of a string: "<" is escaped
\* as <.
RECURSIVE EscapeString(_)
EscapeString(s) ==
    IF s = <<>> THEN <<>>
    ELSE (IF Head(s) = "<" THEN <<"\\", "u", "0", "0", "3", "c">>
          ELSE <<Head(s)>>) \o EscapeString(Tail(s))

\* json.NewEncoder(&buf).Encode(data): what buf holds afterwards and whether
\* an error was returned.  A failed Encode writes nothing to buf.
Encode(data) ==
    CASE data.kind = "nil" ->
             [buf |-> <<"n", "u", "l", "l", "\n">>, err |-> FALSE]
      [] data.kind = "string" ->
             [buf |-> <<"\"">> \o EscapeString(data.s) \o <<"\"", "\n">>,
              err |-> FALSE]
      [] data.kind = "chan" -> [buf |-> <<>>, err |-> TRUE]

\* HTML(w, content, status): the calls made on w, in order.
HTML(content, code) ==
    << HeaderSet("Content-Length", FormatInt(Len(content))),
       HeaderSet("Content-Type", "text/html; charset=utf-8"),
       WriteHeader(code),
       Write(content) >>

\* Text(w, content, status): the calls made on w, in order.
Text(content, code) ==
    << HeaderSet("Content-Length", FormatInt(Len(content))),
       HeaderSet("Content-Type", "text/plain; charset=utf-8"),
       WriteHeader(code),
       Write(content) >>

\* A plausible slip: JSON returns when the encoding fails.
JSONChecked(data, code) ==
    LET enc == Encode(data)
    IN  IF enc.err THEN <<>>
        ELSE << HeaderSet("Content-Length", FormatInt(Len(enc.buf))),
                HeaderSet("Content-Type", "application/json; charset=utf-8"),
                WriteHeader(code),
                Write(enc.buf) >>

\* JSON(w, data, status): the calls made on w, in order.  The error of
\* Encode is dropped.
JSON(data, code) ==
    LET enc == Encode(data)
    IN  << HeaderSet("Content-Length", FormatInt(Len(enc.buf))),
           HeaderSet("Content-Type", "application/json; charset=utf-8"),
           WriteHeader(code),
           Write(enc.buf) >>

\* The calls of the response writer that wcall names.
Calls(c) ==
    CASE c.fn = "HTML" -> HTML(c.content, c.status)
      [] c.fn = "Text" -> Text(c.content, c.status)
      [] c.fn = "JSON" -> JSON(c.data, c.status)
      [] OTHER -> <<>>

\* The calls the writers can be made with.
RespCalls ==
    [fn : {"HTML", "Text"}, content : Contents(MaxContent),
     data : {[kind |-> "nil", s |-> <<>>]}, status : StatusCodes]
        \cup [fn : {"JSON"}, content : {<<>>},
              data : JsonDatas(MaxContent), status : StatusCodes]

\* The next statement of the response writer fn.
RespStep(fn) ==
    /\ wcall.fn = fn
    /\ wpc < Len(Calls(wcall))
    /\ w' = Serve(w, Calls(wcall)[wpc + 1])
    /\ wpc' = wpc + 1
    /\ UNCHANGED <<wcall, errVars, assocVars, fvVars, upVars, unVars,
                   valVars, urlVars, sessVars, vldVars, ffVars>>

HTMLStep == RespStep("HTML")

TextStep == RespStep("Text")

JSONStep == RespStep("JSON")

\* No response writer is running.
RespIdle ==
    /\ wcall = [fn |-> "none", content |-> <<>>,
                data |-> [kind |-> "nil", s |-> <<>>], status |-> 200]
    /\ w = NewRecorder
    /\ wpc = 0

----------------------------------------------------------------------------
(* The flash helpers FormErrors, FormFields and FlashFormWithErrors.  A    *)
(* session is its Values map, key -> []interface{}; a value of interface   *)
(* type is [type, nil, val]: its dynamic type, whether the map it holds    *)
(* is nil, and the map.                                                    *)

formKey == "form_fields"

errsKey == "form_errors"

\* An interface{} holding a ValidationErrors.
ErrorsValue(isNil, e) ==
    [type |-> "ValidationErrors", nil |-> isNil, val |-> e]

\* An interface{} holding a map[string]string.
FieldsValue(isNil, m) ==
    [type |-> "map[string]string", nil |-> isNil, val |-> m]

\* An interface{} holding a value of neither type.
StringValue == [type |-> "string", nil |-> FALSE, val |-> NewErrors]

\* The error sets flashed: a nil one, an empty one and one with a message.
FlashErrs ==
    {ErrorsValue(TRUE, NewErrors), ErrorsValue(FALSE, NewErrors),
     ErrorsValue(FALSE, [f \in {"name"} |-> <<"required">>])}

\* What f.Fields() returns: a nil map, an empty map and one with a value.
FlashFields ==
    {FieldsValue(TRUE, NewErrors), FieldsValue(FALSE, NewErrors),
     FieldsValue(FALSE, [f \in {"name"} |-> "x"])}

\* sess.AddFlash(value, key)
AddFlash(s, value, key) ==
    [k \in DOMAIN s \cup {key} |->
         IF k = key THEN Get(s, key) \o <<value>> ELSE s[k]]

\* sess.Flashes(key): the flashes under key, nil without the key, and the
\* session with the key deleted.
Flashes(s, key) ==
    [val |-> Get(s, key),
     sess |-> [k \in DOMAIN s \ {key} |-> s[k]]]

\* FormErrors(sess)
FormErrors(s) ==
    LET fl == Flashes(s, errsKey)
    IN  [sess |-> fl.sess,
         out |-> IF fl.val = <<>> THEN ErrorsValue(FALSE, NewValidationErrors)
                 ELSE IF fl.val[1].type # "ValidationErrors"
                      THEN ErrorsValue(FALSE, NewValidationErrors)
                      ELSE fl.val[1]]

\* FormFields(sess)
FormFields(s) ==
    LET fl == Flashes(s, formKey)
    IN  [sess |-> fl.sess,
         out |-> IF fl.val = <<>> THEN FieldsValue(FALSE, NewErrors)
                 ELSE IF fl.val[1].type # "map[string]string"
                      THEN FieldsValue(FALSE, NewErrors)
                      ELSE fl.val[1]]

\* A plausible slip: the two keys are swapped.
FlashFormWithErrorsSwapped(s, fields, e) ==
    AddFlash(AddFlash(s, fields, errsKey), e, formKey)

\* FlashFormWithErrors(sess, f, errs), fields being f.Fields()
FlashFormWithErrors(s, fields, e) ==
    AddFlash(AddFlash(s, fields, formKey), e, errsKey)

\* The flashes a session may hold under a key before the helpers are used:
\* none, one of another type, one of either type flashed earlier.
EarlierFlashes ==
    {<<>>, <<StringValue>>,
     <<ErrorsValue(FALSE, [f \in {"old"} |-> <<"earlier">>])>>,
     <<FieldsValue(FALSE, [f \in {"old"} |-> "earlier"])>>}

\* The sessions the helpers are handed.
Sessions ==
    {[k \in K |-> fl[k]] :
         K \in SUBSET {formKey, errsKey},
         fl \in [{formKey, errsKey} -> EarlierFlashes \ {<<>>}]}

NoFlash == [done |-> FALSE, fresh |-> FALSE,
            fields |-> FieldsValue(TRUE, NewErrors),
            errs |-> ErrorsValue(TRUE, NewErrors)]

NoRead == [op |-> "none", out |-> StringValue, before |-> NewErrors]

\* FlashFormWithErrors(sess, f, errs)
FlashFormWithErrorsCall ==
    /\ ~flashed.done
    /\ \E fields \in FlashFields, e \in FlashErrs :
           /\ sess' = FlashFormWithErrors(sess, fields, e)
           /\ flashed' = [done |-> TRUE, fresh |-> DOMAIN sess = {},
                          fields |-> fields, errs |-> e]
    /\ sret' = NoRead
    /\ UNCHANGED <<errVars, assocVars, fvVars, upVars, unVars,
                   valVars, urlVars, respVars, vldVars, ffVars>>

\* FormErrors(sess)
FormErrorsCall ==
    /\ sret.op # "FormErrors" \/ sret.before # sess
    /\ sess' = FormErrors(sess).sess
    /\ sret' = [op |-> "FormErrors", out |-> FormErrors(sess).out,
                before |-> sess]
    /\ UNCHANGED <<flashed, errVars, assocVars, fvVars, upVars, unVars,
                   valVars, urlVars, respVars, vldVars, ffVars>>

\* FormFields(sess)
FormFieldsCall ==
    /\ sret.op # "FormFields" \/ sret.before # sess
    /\ sess' = FormFields(sess).sess
    /\ sret' = [op |-> "FormFields", out |-> FormFields(sess).out,
                before |-> sess]
    /\ UNCHANGED <<flashed, errVars, assocVars, fvVars, upVars, unVars,
                   valVars, urlVars, respVars, vldVars, ffVars>>

\* No session is in use.
SessIdle ==
    /\ sess = NewErrors
    /\ flashed = NoFlash
    /\ sret = NoRead

----------------------------------------------------------------------------
(* The Validator that runs registered field validators and passes each     *)
(* error through a chain of WrapErrorFuncs.  A field validator is modelled *)
(* by the error its ValidatorFunc returns for the value it was added with. *)

\* strings.Title(name) for the field names in use.
Title(name) ==
    CASE name = "title" -> "Title"
      [] name = "body" -> "Body"
      [] OTHER -> name

\* The sentinel error an error wraps, by its text: what errors.Is compares.
Cause(err) == IF err.kind = "field" THEN err.cause ELSE err.msg

\* &FieldError{Name: name, Err: err}; its text is "<name> <err.Error()>"
\* and it unwraps to err.
FieldError(name, err) ==
    [kind |-> "field", msg |-> name \o " " \o ErrorString(err),
     hasErr |-> FALSE, cause |-> Cause(err)]

\* errors.Is(err, target) for a target that is a sentinel error.
Is(err, target) == err.kind # "nil" /\ Cause(err) = target.msg

\* WrapFieldError, MapError(from, to) and IgnoreError(name, target) as
\* values of type WrapErrorFunc.
WrapFieldError ==
    [fn |-> "WrapFieldError", name |-> "", from |-> NilErr, to |-> NilErr]

MapError(from, to) ==
    [fn |-> "MapError", name |-> "", from |-> from, to |-> to]

IgnoreError(name, target) ==
    [fn |-> "IgnoreError", name |-> name, from |-> target, to |-> NilErr]

\* wrap(name, err)
Wrap(wrap, name, err) ==
    CASE wrap.fn = "WrapFieldError" -> FieldError(Title(name), err)
      [] wrap.fn = "MapError" ->
             IF Is(err, wrap.from) THEN wrap.to ELSE err
      [] wrap.fn = "IgnoreError" ->
             IF wrap.name = name /\ Is(err, wrap.from) THEN NilErr ELSE err

\* The inner loop of Validate: err is passed through the chain, which is
\* left at the first nil.
RECURSIVE WrapChain(_, _, _)
WrapChain(wraps, name, err) ==
    IF wraps = <<>> THEN err
    ELSE LET e1 == Wrap(Head(wraps), name, err)
         IN  IF e1.kind = "nil" THEN e1
             ELSE WrapChain(Tail(wraps), name, e1)

\* The WrapErrorFuncs handed to WrapError.
WrapFuncs ==
    {WrapFieldError}
        \cup {IgnoreError(name, NewError(m)) : name \in Fields, m \in Msgs}
        \cup {MapError(NewError("already exists"),
                       NewError("field is required"))}

\* The errors a ValidatorFunc returns: nil when the value is valid.
FuncErrs == PlainErrs

NewValidator == [fields |-> <<>>, wraps |-> <<>>]

\* v.Add(name, val, fn)
ValidatorAdd(v, name, err) ==
    [v EXCEPT !.fields = Append(@, [name |-> name, err |-> err])]

\* v.WrapError(wraps...)
WrapError(v, wraps) == [v EXCEPT !.wraps = wraps]

\* The chain Validate uses, and leaves in v.wraps.
DefaultWraps(wraps) == IF Len(wraps) = 0 THEN <<WrapFieldError>> ELSE wraps

\* The loop of Validate over v.fields from index i on: every validator is
\* invoked, and errs.Add is called with what the chain made of its error,
\* nil included.  A panic of Add ends the loop.
RECURSIVE ValidateFields(_, _, _, _)
ValidateFields(flds, wraps, e, i) ==
    IF i > Len(flds)
    THEN [ret |-> "returned", errs |-> e, invoked |-> i - 1]
    ELSE IF flds[i].err.kind = "nil"
    THEN ValidateFields(flds, wraps, e, i + 1)
    ELSE LET err == WrapChain(wraps, flds[i].name, flds[i].err)
         IN  IF AddPanics(err)
             THEN [ret |-> "panic", errs |-> e, invoked |-> i]
             ELSE ValidateFields(flds, wraps, Add(e, flds[i].name, err),
                                 i + 1)

\* v.Validate(ctx)
ValidatorValidate(v) ==
    ValidateFields(v.fields, DefaultWraps(v.wraps), NewValidationErrors, 1)

NotValidated == [ret |-> "none", errs |-> NewErrors, invoked |-> 0]

\* v.Add(name, val, fn) on a Validator that was not run yet
ValidatorAddCall ==
    /\ vout.ret = "none"
    /\ Len(vld.fields) < MaxFields
    /\ \E name \in Fields, err \in FuncErrs :
           vld' = ValidatorAdd(vld, name, err)
    /\ UNCHANGED <<vout, errVars, assocVars, fvVars, upVars, unVars,
                   valVars, urlVars, respVars, sessVars, ffVars>>

\* v.WrapError(wraps...) on a Validator that was not run yet
WrapErrorCall ==
    /\ vout.ret = "none"
    /\ vld.wraps = <<>>
    /\ \E n \in 1..MaxWraps : \E wraps \in [1..n -> WrapFuncs] :
           vld' = WrapError(vld, wraps)
    /\ UNCHANGED <<vout, errVars, assocVars, fvVars, upVars, unVars,
                   valVars, urlVars, respVars, sessVars, ffVars>>

\* v.Validate(ctx)
ValidatorValidateCall ==
    /\ vout.ret = "none"
    /\ vout' = ValidatorValidate(vld)
    /\ vld' = [vld EXCEPT !.wraps = DefaultWraps(@)]
    /\ UNCHANGED <<errVars, assocVars, fvVars, upVars, unVars,
                   valVars, urlVars, respVars, sessVars, ffVars>>

\* No Validator is in use.
VldIdle ==
    /\ vld = NewValidator
    /\ vout = [ret |-> "idle", errs |-> NewErrors, invoked |-> 0]

----------------------------------------------------------------------------
(* The earlier File, which is itself a Form: File.resolveFile,             *)
(* File.Validate and UnmarshalAndValidate on a File.  Errors are named by  *)
(* kind: "ErrMissingFile", "ErrFileTooLarge", "io.EOF", and "error" for    *)
(* any other (an I/O error, a malformed multipart stream).                 *)

\* The contents of an uploaded file: none, one byte of a JPEG, and 512
\* bytes of text.
UploadDatas ==
    {<<>>, <<[b |-> "J", n |-> 1]>>, <<[b |-> "t", n |-> SniffLen]>>}

\* The requests a File is created with: a multipart form with or without
\* the part of the file, or a body that is the file.  ParseErr: r.ParseForm
\* fails; Fail: the Read or the Seek on the file fails.
FileRequests ==
    [ContentType : {MultipartType},
     Parts : {<<>>} \cup {[f \in {FileField} |-> d] : d \in UploadDatas},
     FormErr : {"none", "parse", "open"}, Body : {<<>>}, BodyErr : {FALSE},
     ParseErr : BOOLEAN, Fail : {"none", "read", "seek"}]
    \cup
    [ContentType : {<<"image/jpeg", "">>, <<"", "">>}, Parts : {<<>>},
     FormErr : {"none"}, Body : UploadDatas, BodyErr : BOOLEAN,
     ParseErr : BOOLEAN, Fail : {"none", "read", "seek"}]

\* NewFile(field, size, r) followed by Allow(mimes...) or Disallow(mimes...)
FileForms ==
    [field : {FileField}, size : MaxSizes, mimes : MimeLists(MaxMimes),
     allow : BOOLEAN, File : {"nil"}, Data : {<<>>}, Header : {"nil"},
     Size : {0}, Type : {""}, Request : FileRequests]

\* strings.Contains(err.Error(), "no such file"); http.ErrMissingFile reads
\* "http: no such file".
NoSuchFile(err) == err = "ErrMissingFile"

\* f.resolveFile(): the File afterwards and the error returned.
resolveFile(f) ==
    LET r == f.Request
    IN  IF HasPrefix(r.ContentType, "multipart/form-data")
        THEN LET ff == FormFile(r, f.field)
             IN  IF ff.err # "nil" THEN [file |-> f, err |-> ff.err]
                 ELSE IF f.size > 0 /\ ff.Size > f.size
                 THEN [file |-> f, err |-> "ErrFileTooLarge"]
                 ELSE [file |-> [f EXCEPT !.File = ff.File,
                                          !.Data = ff.Data,
                                          !.Header = ff.Header,
                                          !.Size = ff.Size],
                       err |-> "nil"]
        ELSE IF r.BodyErr THEN [file |-> f, err |-> "error"]
        ELSE IF f.size > 0 /\ DataLen(r.Body) > f.size
        THEN [file |-> f, err |-> "ErrFileTooLarge"]
        ELSE [file |-> [f EXCEPT !.File = "sectionReadCloser",
                                 !.Data = r.Body],
              err |-> "nil"]

\* The loop over f.mimes of File.Validate, from entry i on.
RECURSIVE FileMimeLoop(_, _, _)
FileMimeLoop(f, e, i) ==
    IF i > Len(f.mimes) THEN e
    ELSE FileMimeLoop(
             f,
             IF (f.Type = f.mimes[i]) # f.allow
             THEN Put(e, f.field,
                      NewError(f.field \o " "
                                   \o (IF f.allow THEN "must be one of"
                                       ELSE "cannot be one of")
                                   \o " " \o Join(f.mimes)))
             ELSE e,
             i + 1)

\* What a method returns for `return errs.Err()`: nil for an empty set.
ReturnErr(e) == IF ErrIsNil(e) THEN "nil" ELSE "Errors"

\* f.Validate(): the File afterwards, what is returned ("nil", "Errors" for
\* the *Errors, "error" for another error) and the *Errors built.
FileValidateForm(f) ==
    LET rf == resolveFile(f)
        g == rf.file
    IN  IF rf.err # "nil"
        THEN LET e1 == IF rf.err = "ErrFileTooLarge"
                       THEN Put(NewErrors, f.field,
                                NewError(f.field \o " cannot be bigger than "
                                             \o humanSize(Int64(f.size))))
                       ELSE NewErrors
                 e2 == IF NoSuchFile(rf.err)
                       THEN Put(e1, f.field, ErrFieldIsRequired(f.field))
                       ELSE e1
             IN  [file |-> g, ret |-> ReturnErr(e2), errs |-> e2]
        ELSE IF g.Request.Fail = "read"
        THEN [file |-> g, ret |-> "Errors", errs |-> NewErrors]
        ELSE IF DataLen(g.Data) = 0
        THEN [file |-> g, ret |-> "Errors",
              errs |-> Put(NewErrors, f.field, ErrFieldIsRequired(f.field))]
        ELSE IF g.Request.Fail = "seek"
        THEN [file |-> g, ret |-> "error", errs |-> NewErrors]
        ELSE LET g1 == [g EXCEPT !.Type = DetectContentType(
                                     SniffBuffer(Take(g.Data, SniffLen)))]
                 e == FileMimeLoop(g1, NewErrors, 1)
             IN  [file |-> g1, ret |-> ReturnErr(e), errs |-> e]

\* UnmarshalAndValidate(f, f.Request) for a File f.  Unmarshal fails when
\* r.ParseForm does, and decodes nothing into a File otherwise; an *Errors
\* that f.Validate returns is merged, another error is returned.
FileUnmarshalAndValidate(f) ==
    IF f.Request.ParseErr
    THEN [file |-> f, ret |-> "error", errs |-> NewErrors]
    ELSE LET v == FileValidateForm(f)
         IN  IF v.ret = "error" THEN v
             ELSE LET errs0 == IF v.ret = "Errors"
                               THEN Merge(NewErrors, v.errs)
                               ELSE NewErrors
                  IN  [file |-> v.file, ret |-> ReturnErr(errs0),
                       errs |-> errs0]

NoFileCall == [op |-> "none", ret |-> "", errs |-> NewErrors]

\* upl.Validate()
FileValidateFormCall ==
    /\ uplret.op = "none"
    /\ upl' = FileValidateForm(upl).file
    /\ uplret' = [op |-> "Validate", ret |-> FileValidateForm(upl).ret,
                  errs |-> FileValidateForm(upl).errs]
    /\ UNCHANGED <<errVars, assocVars, fvVars, upVars, unVars, valVars,
                   urlVars, respVars, sessVars, vldVars>>

\* UnmarshalAndValidate(upl, upl.Request)
FileUnmarshalAndValidateCall ==
    /\ uplret.op = "none"
    /\ upl' = FileUnmarshalAndValidate(upl).file
    /\ uplret' = [op |-> "UnmarshalAndValidate",
                  ret |-> FileUnmarshalAndValidate(upl).ret,
                  errs |-> FileUnmarshalAndValidate(upl).errs]
    /\ UNCHANGED <<errVars, assocVars, fvVars, upVars, unVars, valVars,
                   urlVars, respVars, sessVars, vldVars>>

\* No File of the Form version is in use.
FfIdle ==
    /\ upl = [field |-> FileField, size |-> 0, mimes |-> <<>>,
              allow |-> FALSE, File |-> "nil", Data |-> <<>>,
              Header |-> "nil", Size |-> 0, Type |-> "",
              Request |-> [ContentType |-> <<"", "">>, Parts |-> <<>>,
                           FormErr |-> "none", Body |-> <<>>,
                           BodyErr |-> FALSE, ParseErr |-> FALSE,
                           Fail |-> "none"]]
    /\ uplret = [op |-> "idle", ret |-> "", errs |-> NewErrors]

----------------------------------------------------------------------------
(* Specifications of the error sets.                                       *)

\* The three-set merge is not running.
AssocIdle ==
    /\ ma = NewErrors /\ mb = NewErrors /\ mc = NewErrors
    /\ left = NewErrors /\ right = NewErrors
    /\ mpc = "idle"

\* The calls on errs and other are not running.
ErrIdle ==
    /\ errs = NewErrors
    /\ other = NewErrors
    /\ status = "ok"
    /\ call = NoCall

\* NewErrors(): both sets start empty and are built by the calls above.
Init ==
    /\ errs = NewErrors
    /\ other = NewErrors
    /\ status = "ok"
    /\ call = NoCall
    /\ AssocIdle /\ FvIdle /\ UpIdle /\ UnIdle /\ ValIdle /\ UrlIdle
    /\ RespIdle /\ SessIdle /\ VldIdle /\ FfIdle

Next ==
    \/ PutCall
    \/ AddCall
    \/ PutOther
    \/ MergeCall
    \/ ErrCall
    \/ FirstCall
    \/ HasCall
    \/ VFirstCall

Spec == Init /\ [][Next]_vars

\* Every sequence over Msgs of length at most n.
SeqsUpTo(n) == UNION {[1..k -> Msgs] : k \in 0..n}

\* Every value of the map type whose fields hold at most n messages.  Errors
\* and ValidationErrors are exported map types, and Validate hands the map
\* itself to the caller's Validator, so a key may hold an empty slice:
\* webutil.Errors{"title": {}}.
AnyErrors(n) == UNION {[D -> SeqsUpTo(n)] : D \in SUBSET Fields}

\* The calls above made on any value of the map type.
InitAny ==
    /\ errs \in AnyErrors(MaxLen)
    /\ other \in AnyErrors(MaxOther)
    /\ status = "ok"
    /\ call = NoCall
    /\ AssocIdle /\ FvIdle /\ UpIdle /\ UnIdle /\ ValIdle /\ UrlIdle
    /\ RespIdle /\ SessIdle /\ VldIdle /\ FfIdle

SpecAny == InitAny /\ [][Next]_vars

----------------------------------------------------------------------------
(* Merging three sets in both groupings.  Merge mutates its receiver, so   *)
(* each grouping works on its own copies of a, b and c.                    *)

\* a.Merge(b); a.Merge(c)
MergeLeft ==
    /\ mpc = "start"
    /\ left' = Merge(Merge(ma, mb), mc)
    /\ mpc' = "left"
    /\ UNCHANGED <<ma, mb, mc, right, errVars, fvVars, upVars,
                   unVars, valVars, urlVars, respVars, sessVars, vldVars,
                   ffVars>>

\* b.Merge(c); a.Merge(b)
MergeRight ==
    /\ mpc = "left"
    /\ right' = Merge(ma, Merge(mb, mc))
    /\ mpc' = "done"
    /\ UNCHANGED <<ma, mb, mc, left, errVars, fvVars, upVars,
                   unVars, valVars, urlVars, respVars, sessVars, vldVars,
                   ffVars>>

InitMerge ==
    /\ ma \in AnyErrors(AssocLen)
    /\ mb \in AnyErrors(AssocLen)
    /\ mc \in AnyErrors(AssocLen)
    /\ left = NewErrors /\ right = NewErrors
    /\ mpc = "start"
    /\ ErrIdle /\ FvIdle /\ UpIdle /\ UnIdle /\ ValIdle /\ UrlIdle
    /\ RespIdle /\ SessIdle /\ VldIdle /\ FfIdle

NextMerge == MergeLeft \/ MergeRight

SpecMerge == InitMerge /\ [][NextMerge]_vars

----------------------------------------------------------------------------
(* Specifications of file validation and of file unmarshalling.            *)

\* Any validator within the bounds, not yet run.
InitFile ==
    /\ fv \in FileValidators
    /\ verrs = NewErrors
    /\ vret = "none"
    /\ hs = NoHumanSize
    /\ ErrIdle /\ AssocIdle /\ UpIdle /\ UnIdle /\ ValIdle /\ UrlIdle
    /\ RespIdle /\ SessIdle /\ VldIdle /\ FfIdle

NextFile == ValidateCall \/ HumanSizeCall

SpecFile == InitFile /\ [][NextFile]_vars

\* Any request within the bounds and a new File for FileField.
InitUpload ==
    /\ req \in Requests
    /\ file = NewFile
    /\ uret = "none"
    /\ ErrIdle /\ AssocIdle /\ FvIdle /\ UnIdle /\ ValIdle /\ UrlIdle
    /\ RespIdle /\ SessIdle /\ VldIdle /\ FfIdle

NextUpload == UnmarshalRequestCall

SpecUpload == InitUpload /\ [][NextUpload]_vars

----------------------------------------------------------------------------
(* Specifications of form unmarshalling.                                   *)

\* Any form request within the bounds and a Post, empty or filled.
InitUnmarshal ==
    /\ hreq \in FormRequests
    /\ form \in Posts
    /\ hret = NoReturn("none")
    /\ ErrIdle /\ AssocIdle /\ FvIdle /\ UpIdle /\ ValIdle /\ UrlIdle
    /\ RespIdle /\ SessIdle /\ VldIdle /\ FfIdle

NextUnmarshal == UnmarshalFormCall \/ UnmarshalAndValidateCall

SpecUnmarshal == InitUnmarshal /\ [][NextUnmarshal]_vars

\* Any request with a file within the bounds, a Post and a new File.
InitWithFile ==
    /\ hreq \in FileFormRequests
    /\ form \in Posts
    /\ hret = NoReturn("none")
    /\ ErrIdle /\ AssocIdle /\ FvIdle /\ UpIdle /\ ValIdle /\ UrlIdle
    /\ RespIdle /\ SessIdle /\ VldIdle /\ FfIdle

NextWithFile == UnmarshalFormWithFileCall

SpecWithFile == InitWithFile /\ [][NextWithFile]_vars

----------------------------------------------------------------------------
(* Specification of Validate.                                              *)

\* Any Validator within the bound, not yet run.
InitValidate ==
    /\ vadds \in Validators(MaxAdds)
    /\ vres = [ret |-> "none", errs |-> NewErrors]
    /\ ErrIdle /\ AssocIdle /\ FvIdle /\ UpIdle /\ UnIdle /\ UrlIdle
    /\ RespIdle /\ SessIdle /\ VldIdle /\ FfIdle

NextValidate == ValidateAddsCall

SpecValidate == InitValidate /\ [][NextValidate]_vars

----------------------------------------------------------------------------
(* Specification of BasePath and BaseAddress.                              *)

\* Any path and any request within the bounds, neither function called yet.
InitUrl ==
    /\ path \in Paths(MaxPath)
    /\ base = [done |-> FALSE, out |-> <<>>]
    /\ areq \in AddrRequests
    /\ addr = [done |-> FALSE, out |-> ""]
    /\ ErrIdle /\ AssocIdle /\ FvIdle /\ UpIdle /\ UnIdle /\ ValIdle
    /\ RespIdle /\ SessIdle /\ VldIdle /\ FfIdle

NextUrl == BasePathCall \/ BaseAddressCall

SpecUrl == InitUrl /\ [][NextUrl]_vars

----------------------------------------------------------------------------
(* Specification of the response writers.                                  *)

\* Any call of a response writer within the bounds, on a fresh writer.
InitResp ==
    /\ wcall \in RespCalls
    /\ w = NewRecorder
    /\ wpc = 0
    /\ ErrIdle /\ AssocIdle /\ FvIdle /\ UpIdle /\ UnIdle /\ ValIdle
    /\ UrlIdle
    /\ SessIdle /\ VldIdle /\ FfIdle

NextResp == HTMLStep \/ TextStep \/ JSONStep

SpecResp == InitResp /\ [][NextResp]_vars

----------------------------------------------------------------------------
(* Specification of the flash helpers.                                     *)

\* Any session within the bounds, no helper called yet.
InitSess ==
    /\ sess \in Sessions
    /\ flashed = NoFlash
    /\ sret = NoRead
    /\ ErrIdle /\ AssocIdle /\ FvIdle /\ UpIdle /\ UnIdle /\ ValIdle
    /\ UrlIdle /\ RespIdle /\ VldIdle /\ FfIdle

NextSess == FlashFormWithErrorsCall \/ FormErrorsCall \/ FormFieldsCall

SpecSess == InitSess /\ [][NextSess]_vars

----------------------------------------------------------------------------
(* Specification of the Validator.                                         *)

\* var v Validator: no field, no chain, not run.
InitValidator ==
    /\ vld = NewValidator
    /\ vout = NotValidated
    /\ ErrIdle /\ AssocIdle /\ FvIdle /\ UpIdle /\ UnIdle /\ ValIdle
    /\ UrlIdle /\ RespIdle /\ SessIdle /\ FfIdle

NextValidator == ValidatorAddCall \/ WrapErrorCall \/ ValidatorValidateCall

SpecValidator == InitValidator /\ [][NextValidator]_vars

----------------------------------------------------------------------------
(* Specification of the earlier File.                                      *)

\* Any File within the bounds, created for any request, not yet validated.
InitFileForm ==
    /\ upl \in FileForms
    /\ uplret = NoFileCall
    /\ ErrIdle /\ AssocIdle /\ FvIdle /\ UpIdle /\ UnIdle /\ ValIdle
    /\ UrlIdle /\ RespIdle /\ SessIdle /\ VldIdle

NextFileForm == FileValidateFormCall \/ FileUnmarshalAndValidateCall

SpecFileForm == InitFileForm /\ [][NextFileForm]_vars

----------------------------------------------------------------------------
(* Claims about the error sets.                                            *)

\* C1: adding a nil error (Add, or Put on an *Errors) completes normally and
\* leaves the error set exactly as it was.
C1_NilErrorIsNoOp ==
    [][(call'.op \in {"Add", "Put"} /\ call'.err = "nil")
          => (status' = "ok" /\ errs' = errs)]_vars

\* C2: Err() returns nil if and only if every field's message sequence is
\* empty, for every value of the map, a key with an empty sequence included.
C2_ErrNilIffAllEmpty ==
    call.op = "Err" =>
        ((call.ret = "nil") <=> (\A f \in DOMAIN errs : Len(errs[f]) = 0))

\* C3: in a set built from the empty set by Add/Put and Merge, of sets built
\* the same way, a key is present only if it holds at least one message.
C3_PresentKeyHasMessage ==
    /\ \A f \in DOMAIN errs : Len(errs[f]) >= 1
    /\ \A f \in DOMAIN other : Len(other[f]) >= 1

\* C3's case: messages were put in both sets and a Merge has just run, after
\* which the receiver holds every field and one field is at the bound.
C3_Witness ==
    /\ call.op = "Merge"
    /\ DOMAIN errs = Fields
    /\ DOMAIN other # {}
    /\ \E f \in Fields : Len(errs[f]) = MaxLen

\* C5: First(field) never fails; it returns the earliest message of a field
\* that has messages and "" for an absent field or an empty sequence.
C5_FirstNeverFails ==
    call.op \in {"First", "VFirst"} =>
        /\ status = "ok"
        /\ call.ret = (IF Len(Get(errs, call.key)) > 0
                       THEN Head(Get(errs, call.key)) ELSE "")

\* C4: Merge is per-field concatenation and is associative: both groupings
\* give, for every field, a's messages, then b's, then c's, and the keys of
\* b and c that a lacks are created.
C4_MergeAssociative ==
    mpc = "done" =>
        /\ left = right
        /\ DOMAIN left = DOMAIN ma \cup DOMAIN mb \cup DOMAIN mc
        /\ \A f \in Fields :
              Get(left, f) = Get(ma, f) \o Get(mb, f) \o Get(mc, f)

\* C4's case: a field that holds messages in a, b and c (b's and c's
\* differ), and a field that a lacks and the merge created.
C4_Witness ==
    /\ mpc = "done"
    /\ \E f \in Fields :
          /\ Len(Get(ma, f)) > 0 /\ Len(Get(mb, f)) > 0 /\ Len(Get(mc, f)) > 0
          /\ Get(mb, f) # Get(mc, f)
    /\ \E g \in Fields : g \notin DOMAIN ma /\ g \in DOMAIN left

----------------------------------------------------------------------------
(* Claims about file validation and file unmarshalling.                    *)

\* C6: humanSize truncates into the units B..PB: 0 gives "0 B", 1024 gives
\* "1 KB", 1536 gives "1 KB" and 1048576 gives "1 MB".
C6_HumanSizeExamples ==
    /\ hs.n = Int64(0) => hs.out = "0 B"
    /\ hs.n = Int64(1024) => hs.out = "1 KB"
    /\ hs.n = Int64(1536) => hs.out = "1 KB"
    /\ hs.n = Int64(1048576) => hs.out = "1 MB"

\* C7: a file of declared size 2048 validated against a maximum of 1024 with
\* no MIME list records exactly one message for the field, and it is
\* "<field> cannot be bigger than 1 KB".
C7_FileLimitMessage ==
    (/\ vret \in {"nil", "errors", "panic"}
     /\ HasFile(fv) /\ fv.HeaderSize = 2048 /\ fv.Size = 1024
     /\ fv.Mimes = <<>>)
        => /\ vret = "errors"
           /\ verrs = [f \in {fv.Field} |->
                          <<fv.Field \o " cannot be bigger than 1 KB">>]

\* C8: for a present file and a non-empty MIME list, a MIME message is
\* recorded for the field if and only if (Type is listed) differs from
\* MimesAllowed.
C8_MimeMembership ==
    (/\ vret \in {"nil", "errors"}
     /\ HasFile(fv) /\ Len(fv.Mimes) > 0)
        => ((\E i \in 1..Len(Get(verrs, fv.Field)) :
                 verrs[fv.Field][i] = ErrorString(MimeError(fv)))
            <=> ((\E j \in 1..Len(fv.Mimes) : fv.Mimes[j] = fv.Type)
                    # fv.MimesAllowed))

\* C9: for a multipart request that lacks the named file part,
\* UnmarshalRequest returns nil, HasFile stays false and Type stays empty.
C9_MissingPartNoError ==
    (/\ uret \notin {"none", "idle"}
     /\ HasPrefix(req.ContentType, "multipart/form-data")
     /\ req.FormErr # "parse"
     /\ file.Field \notin DOMAIN req.Parts)
        => /\ uret = "nil"
           /\ ~HasFile(file)
           /\ file.Type = ""

\* C9's case: the call has returned for a multipart form that holds another
\* file part but not the named one.
C9_Witness ==
    /\ uret = "nil"
    /\ HasPrefix(req.ContentType, "multipart/form-data")
    /\ req.FormErr = "none"
    /\ DOMAIN req.Parts = {"doc"}

\* C10: for a request that is not multipart and whose body is read without
\* error, UnmarshalRequest returns nil; an empty body leaves File and Header
\* unset, a non-empty one gives a file whose Header.Size is the number of
\* body bytes.
C10_BodyFile ==
    (/\ uret \notin {"none", "idle"}
     /\ ~HasPrefix(req.ContentType, "multipart/form-data")
     /\ ~req.BodyErr)
        => /\ uret = "nil"
           /\ DataLen(req.Body) = 0 => (~HasFile(file) /\ file.Header = "nil")
           /\ DataLen(req.Body) > 0 =>
                 (/\ HasFile(file) /\ file.Header = "set"
                  /\ file.Size = DataLen(req.Body)
                  /\ file.Data = req.Body)

\* C10's case: the call has returned for an empty body sent as image/jpeg.
C10_Witness ==
    /\ uret = "nil"
    /\ req.ContentType = <<"image/jpeg", "">>
    /\ ~req.BodyErr
    /\ DataLen(req.Body) = 0
    /\ ~HasFile(file)

\* The other case of C10: a body of MaxBody runs became the file.
C10_NonEmptyReached ==
    /\ uret = "nil"
    /\ ~HasPrefix(req.ContentType, "multipart/form-data")
    /\ Len(req.Body) = MaxBody
    /\ HasFile(file)

\* The content a caller reads from the file from its position to the end.
ReadAll(f) == Drop(f.Data, f.Pos)

\* The content the request sent as the file.
Sent(r, f) ==
    IF HasPrefix(r.ContentType, "multipart/form-data")
    THEN r.Parts[f.Field] ELSE r.Body

\* C11: a body sent as the file that is longer than 32 MiB, by one byte
\* even, is unmarshalled into a file on disk (an *os.File) that reads back
\* the body byte for byte; a body within 32 MiB is kept in memory.
C11_LargeBodyOnDisk ==
    (/\ uret = "nil"
     /\ ~HasPrefix(req.ContentType, "multipart/form-data")
     /\ DataLen(req.Body) > 0)
        => /\ ReadAll(file) = req.Body
           /\ DataLen(req.Body) > defaultMaxMemory => file.File = "os.File"
           /\ DataLen(req.Body) <= defaultMaxMemory
                 => file.File = "sectionReadCloser"

\* C12: after a call that returned nil and found a file, the sniffing read
\* at most SniffLen bytes, Type is what those bytes sniff to, and the file
\* reads back all that was sent.
C12_SniffAndRewind ==
    (uret = "nil" /\ HasFile(file))
        => /\ file.Read <= SniffLen
           /\ file.Type = DetectContentType(Take(file.Data, SniffLen))
           /\ file.Pos = 0
           /\ ReadAll(file) = Sent(req, file)

----------------------------------------------------------------------------
(* Claims about form unmarshalling.                                        *)

\* C13: a call commits to one decode path by the Content-Type: with the
\* prefix application/json only the JSON decoder runs, no form is parsed or
\* decoded; otherwise the form path runs and the body is never JSON-decoded.
\* A failure is not retried on the other path.
C13_OneDecodePath ==
    hret.op = "UnmarshalForm" =>
        IF HasPrefix(hreq.ContentType, "application/json")
        THEN hret.steps = <<"json">>
        ELSE hret.steps \in {<<"ParseForm">>, <<"schema">>,
                             <<"ParseForm", "schema">>}

\* C13's case: a body declared application/json; charset=utf-8 that is not
\* JSON failed to decode while r.Form held both fields, and only the JSON
\* decoder ran.
C13_Witness ==
    /\ hret.op = "UnmarshalForm"
    /\ hreq.ContentType = <<"application/json", "; charset=utf-8">>
    /\ hret.cause = SyntaxError
    /\ hret.ret = "error"
    /\ hreq.Form = FormOf([k \in Fields |-> <<PostValue>>])
    /\ hret.steps = <<"json">>

\* C14: an empty body declared application/json makes UnmarshalForm return
\* nil and leaves the form as it was.
C14_EmptyJsonBody ==
    (/\ hret.op = "UnmarshalForm"
     /\ HasPrefix(hreq.ContentType, "application/json")
     /\ hreq.Json = "empty")
        => /\ hret.ret = "nil"
           /\ form = hret.before

\* C14's case: the call returned nil for an empty JSON body and a filled
\* Post, whose fields are as before.
C14_Witness ==
    /\ hret.op = "UnmarshalForm"
    /\ hreq.ContentType = <<"application/json", "">>
    /\ hreq.Json = "empty"
    /\ hreq.Consumed
    /\ hret.ret = "nil"
    /\ form = [k \in Fields |-> OldValue]

\* C15: on the form path UnmarshalForm turns a schema.EmptyFieldError into
\* an error set with one entry, "<key> field is required" under the key; a
\* schema.MultiError into a set with one entry for each of its fields; and
\* returns any other failure unchanged.
C15_NormalisedByShape ==
    (hret.op = "UnmarshalForm"
        /\ ~HasPrefix(hreq.ContentType, "application/json"))
        => /\ hret.cause.kind = "schema.EmptyFieldError" =>
                 /\ hret.ret = "ValidationErrors"
                 /\ hret.verrs = [k \in {hret.cause.key} |->
                                     <<k \o " field is required">>]
           /\ hret.cause.kind = "schema.MultiError" =>
                 /\ hret.ret = "ValidationErrors"
                 /\ DOMAIN hret.verrs = DOMAIN hret.cause.members
                 /\ \A k \in DOMAIN hret.verrs : Len(hret.verrs[k]) = 1
           /\ hret.cause.kind \in {"ParseForm", "schema: invalid"} =>
                 /\ hret.ret = "error"
                 /\ hret.err = hret.cause

\* The messages that the claim expects for field k from the error c of the
\* decoder.
Expected(c, k) ==
    IF c.kind = "schema.EmptyFieldError" /\ c.key = k
    THEN <<k \o " is required">>
    ELSE IF c.kind = "schema.MultiError" /\ k \in DOMAIN c.members
    THEN <<ErrorString(c.members[k])>>
    ELSE IF c.kind = "UnmarshalError" /\ c.key = k /\ c.inner.kind # "nil"
    THEN <<c.inner.msg>>
    ELSE <<>>

RECURSIVE Added(_, _)
Added(adds, k) ==
    IF adds = <<>> THEN <<>>
    ELSE (IF Head(adds).key = k
          THEN <<AddUnwrap(Head(adds).err).msg>> ELSE <<>>)
             \o Added(Tail(adds), k)

C18_FormSource ==
    (hret.op = "UnmarshalFormWithFile" /\ hret.ret = "nil") =>
        IF HasPrefix(hreq.ContentType, "multipart/form-data")
        THEN \A k \in DOMAIN hreq.PostForm : form[k] = PostValue
        ELSE HasFile(file) => \A k \in DOMAIN hreq.Query : form[k] = QueryValue

----------------------------------------------------------------------------
(* Claims about BasePath and BaseAddress.                                  *)

\* C19: BasePath never returns the empty string; it returns "/" for "", for
\* "/" and for every path that ends in "/"; otherwise it returns what
\* follows the final "/" (the whole path without one), which holds no "/".
C19_BasePath ==
    base.done =>
        /\ base.out # <<>>
        /\ IF path = <<>> \/ path[Len(path)] = "/"
           THEN base.out = <<"/">>
           ELSE /\ \A i \in 1..Len(base.out) : base.out[i] # "/"
                /\ \E n \in 0..(Len(path) - 1) :
                      /\ n > 0 => path[n] = "/"
                      /\ \A j \in (n + 1)..Len(path) : path[j] # "/"
                      /\ base.out = SubSeq(path, n + 1, Len(path))

\* C19's case: a path of five characters with separators at the start and
\* in the middle gave its last two characters.
C19_Witness ==
    /\ base.done
    /\ Len(path) = 5
    /\ path[1] = "/" /\ path[3] = "/"
    /\ base.out = <<path[4], path[5]>>
    /\ base.out = <<"a", "\\">>

\* C20: BaseAddress returns scheme://host, the scheme being the
\* X-Forwarded-Proto header when it is not empty, else https with TLS and
\* http without, and the host the X-Forwarded-Host header when it is not
\* empty, else r.Host, each chosen whatever the other is.
C20_BaseAddress ==
    addr.done =>
        \E scheme \in {"http", "https"}, host \in {"", "localhost:8080",
                                                  "example.com"} :
            /\ addr.out = scheme \o "://" \o host
            /\ IF areq.Proto \in {<<>>, <<"">>}
               THEN scheme = (IF areq.TLS THEN "https" ELSE "http")
               ELSE scheme = areq.Proto[1]
            /\ IF areq.FwdHost \in {<<>>, <<"">>}
               THEN host = areq.Host
               ELSE host = areq.FwdHost[1]

\* C20's case: no forwarded scheme, TLS, and a forwarded host.
C20_Witness ==
    /\ addr.done
    /\ areq.Proto = <<>>
    /\ areq.TLS
    /\ areq.FwdHost = <<"example.com">>
    /\ areq.Host = "localhost:8080"
    /\ addr.out = "https://example.com"

----------------------------------------------------------------------------
(* Claims about the response writers.                                      *)

\* The positions in the log of w of the calls named op.
At(op) == {i \in 1..Len(w.log) : w.log[i] = op}

\* C21: each response writer (HTML, Text, JSON) sets both the Content-Type
\* header and a Content-Length header equal to the byte length of the body
\* it writes before it writes the status code, writes the given status code
\* exactly once, and writes the body only after the status; for JSON this
\* holds even when the encoding fails.
C21_HeadersStatusBody ==
    /\ Cardinality(At("WriteHeader")) <= 1
    /\ \A i \in At("WriteHeader") :
           /\ w.code = <<wcall.status>>
           /\ {"Content-Type", "Content-Length"} \subseteq DOMAIN w.header
           /\ \A j \in At("Set") : j < i
    /\ \A i \in At("Write") :
           /\ \E j \in At("WriteHeader") : j < i
           /\ Len(w.body) = 1
           /\ w.header["Content-Length"] = FormatInt(Len(w.body[1]))
    /\ (wcall.fn # "none" /\ wpc = Len(Calls(wcall)))
           => At("WriteHeader") # {} /\ At("Write") # {}

\* JSON has returned for a value that cannot be encoded: the status is
\* written and the body is empty.
C21_Witness ==
    /\ wcall.fn = "JSON"
    /\ Encode(wcall.data).err
    /\ wpc = Len(Calls(wcall))
    /\ w.code = <<wcall.status>>
    /\ w.body = << <<>> >>
    /\ w.header["Content-Length"] = "0"

----------------------------------------------------------------------------
(* Claims about the flash helpers.                                         *)

\* C22: after FlashFormWithErrors(sess, f, errs) on a session with no
\* earlier flashes, FormErrors(sess) returns errs and FormFields(sess)
\* returns f.Fields() verbatim; when nothing was flashed under the key, or
\* the stored value has the wrong type, each returns an empty non-nil
\* default.
C22_FlashRoundTrip ==
    /\ sret.op = "FormErrors" =>
           LET fl == Get(sret.before, errsKey)
           IN  /\ (flashed.done /\ flashed.fresh
                       /\ errsKey \in DOMAIN sret.before)
                      => sret.out = flashed.errs
               /\ (fl = <<>> \/ fl[1].type # "ValidationErrors")
                      => sret.out = ErrorsValue(FALSE, NewErrors)
    /\ sret.op = "FormFields" =>
           LET fl == Get(sret.before, formKey)
           IN  /\ (flashed.done /\ flashed.fresh
                       /\ formKey \in DOMAIN sret.before)
                      => sret.out = flashed.fields
               /\ (fl = <<>> \/ fl[1].type # "map[string]string")
                      => sret.out = FieldsValue(FALSE, NewErrors)

\* FormErrors has read back a set with a message that FlashFormWithErrors
\* put in a session without flashes.
C22_Witness ==
    /\ sret.op = "FormErrors"
    /\ flashed.done /\ flashed.fresh
    /\ errsKey \in DOMAIN sret.before
    /\ sret.out = flashed.errs
    /\ DOMAIN sret.out.val # {}
    /\ errsKey \notin DOMAIN sess

----------------------------------------------------------------------------
(* Claims about Errors.Has and the Validator.                              *)

\* C23: Errors.Has(field, err) returns true if and only if a message equal
\* to err.Error() was recorded for that field: true right after
\* Put(field, err) with a non-nil err, false for a field without messages.
C23_HasIffRecorded ==
    call.op = "Has" =>
        LET held == Get(errs, call.key)
        IN  (call.ret = "true") <=> (\E i \in 1..Len(held) : held[i] = call.err)

\* What the chain of vld makes of the error of its i-th field validator:
\* nil when the validator passed or a WrapErrorFunc returned nil.
Outcome(i) ==
    IF vld.fields[i].err.kind = "nil" THEN NilErr
    ELSE WrapChain(DefaultWraps(vld.wraps), vld.fields[i].name,
                   vld.fields[i].err)

\* The i-th field validator failed and its error was ignored by the chain.
Ignored(i) == vld.fields[i].err.kind # "nil" /\ Outcome(i).kind = "nil"

\* C24: when a WrapErrorFunc of the chain returns nil for a field's
\* validation error, Validator.Validate completes normally and records no
\* message for it, so a run in which every error is ignored yields an error
\* set whose Err() is nil.
C24_IgnoredErrorIsDropped ==
    (vout.ret \notin {"none", "idle"}
         /\ \E i \in 1..Len(vld.fields) : Ignored(i))
        => /\ vout.ret = "returned"
           /\ (\A i \in 1..Len(vld.fields) : Outcome(i).kind = "nil")
                  => ErrIsNil(vout.errs)

\* The messages Validate is to record under name: one per failing validator
\* of that field that was not ignored, in registration order.
Reported(name) ==
    LET Fails(i) == vld.fields[i].name = name /\ Outcome(i).kind # "nil"
        is == SelectSeq([i \in 1..Len(vld.fields) |-> i], Fails)
    IN  [j \in 1..Len(is) |-> ErrorString(Outcome(is[j]))]

\* C25: Validator.Validate never short-circuits: it invokes every
\* registered field validator once, in registration order, whatever failed
\* before, and the returned set holds exactly one message per failing,
\* non-ignored validator under its field name, in registration order
\* within a field.
C25_NoShortCircuit ==
    vout.ret \notin {"none", "idle"}
        => /\ vout.ret = "returned"
           /\ vout.invoked = Len(vld.fields)
           /\ DOMAIN vout.errs = {name \in Fields : Reported(name) # <<>>}
           /\ \A name \in DOMAIN vout.errs : vout.errs[name] = Reported(name)

----------------------------------------------------------------------------
(* Claims about humanSize over the whole range of an int64.                *)

\* C30: for every non-negative 64-bit byte count n, humanSize ends with a
\* unit index inside the six-entry table {B, KB, MB, GB, TB, PB}: the index
\* never reaches 6, also for n up to 2^63 - 1.
C30_UnitIndexInRange ==
    hs # NoHumanSize
        => /\ humanLoop(hs.n, 0)[2] < Len(units)
           /\ hs.out # "panic"

----------------------------------------------------------------------------
(* Further claims about file validation.                                   *)

\* The messages of the validated field that are neither the MIME message
\* nor the required message: Validate adds no other kind than the size
\* message.
SizeMessages ==
    SelectSeq(Get(verrs, fv.Field),
              LAMBDA m : /\ m # ErrorString(MimeError(fv))
                         /\ m # fv.Field \o " field is required")

\* C26: FileValidator.Validate records a size message for the field if and
\* only if the configured maximum is greater than 0 and the file's declared
\* header size is strictly greater than the maximum: with a maximum of 0
\* none is recorded for any size, and a file as large as the maximum is
\* accepted.
C26_SizeMessageIffOver ==
    vret \in {"nil", "errors", "panic"}
        => /\ vret # "panic"
           /\ Len(SizeMessages) <= 1
           /\ (SizeMessages # <<>>)
                  <=> (fv.Size > 0 /\ fv.HeaderSize > fv.Size)

\* A file of 1025 bytes was validated against a maximum of 1024: the one
\* message of the field is the size message.
C26_Witness ==
    /\ vret = "errors"
    /\ HasFile(fv) /\ fv.Size = 1024 /\ fv.HeaderSize = 1025
    /\ fv.Mimes = <<>>
    /\ Len(verrs[fv.Field]) = 1
    /\ Len(SizeMessages) = 1

\* C28: when no file was uploaded (HasFile is false), FileValidator.Validate
\* records exactly one message for the field, the field-required message,
\* and makes no size or MIME check, whatever Size, Mimes and MimesAllowed
\* are.
C28_NoFileOnlyRequired ==
    (vret \in {"nil", "errors", "panic"} /\ ~HasFile(fv))
        => /\ vret = "errors"
           /\ verrs = [f \in {fv.Field} |->
                          <<fv.Field \o " field is required">>]

\* A validator with a maximum and a list of allowed types was run without
\* a file.
C28_Witness ==
    /\ vret = "errors"
    /\ ~HasFile(fv)
    /\ fv.Size > 0 /\ Len(fv.Mimes) = MaxMimes /\ fv.MimesAllowed
    /\ Len(verrs[fv.Field]) = 1

----------------------------------------------------------------------------
(* Claims about the earlier File.                                          *)

\* Obtaining or reading the file of upl fails with an error that is neither
\* file-too-large nor missing-file.
OpaqueFailure ==
    LET rf == resolveFile([upl EXCEPT !.File = "nil", !.Data = <<>>,
                                      !.Header = "nil", !.Size = 0,
                                      !.Type = ""])
    IN  \/ rf.err = "error"
        \/ rf.err = "nil" /\ upl.Request.Fail = "read"
        \/ rf.err = "nil" /\ upl.Request.Fail = "seek"
               /\ DataLen(rf.file.Data) > 0

\* C27: an opaque failure while obtaining or reading the uploaded file (any
\* error other than file-too-large or missing-file) is propagated:
\* File.Validate, and hence UnmarshalAndValidate on a File, returns a
\* non-nil error and never reports success.
C27_OpaqueFailurePropagated ==
    (uplret.op \in {"Validate", "UnmarshalAndValidate"} /\ OpaqueFailure)
        => uplret.ret # "nil"

----------------------------------------------------------------------------
(* A further claim about UnmarshalForm.                                    *)

=============================================================================
